---- MODULE Spec2Model ----
(***************************************************************************)
(* Model of the image-metadata API: the five Lambda handlers               *)
(* (upload_presigned_url, complete_upload, delete_image,                   *)
(* get_image_presigned_url, list_images) over a DynamoDB table with the    *)
(* UserIdTimestampIndex GSI and an S3 bucket.                              *)
(*                                                                         *)
(* Strings that take part in key construction (user_id, image_id,          *)
(* filename, s3_key) are sequences of one-character strings, so that       *)
(* concatenation and sanitisation are computed character by character.     *)
(* Timestamps (datetime.utcnow().isoformat()) are modelled by the clock    *)
(* value they are taken from; string order on same-format ISO timestamps   *)
(* is the order of the clock values.                                       *)
(***************************************************************************)
EXTENDS Integers, Sequences, FiniteSets, TLC

VARIABLES
    table,      \* DynamoDB table: image_id -> item (DOMAIN = stored ids)
    objects,    \* S3 bucket: s3_key -> [content_type, content_length]
    issued,     \* upload credentials a client still holds
    now,        \* the clock read by datetime.utcnow()
    nops,       \* number of API requests so far (bounds the run)
    req,        \* the last request
    resp,       \* the response to the last request
    listing,    \* a client's pagination in progress
    inflight    \* invocations running side by side: where each one stands

vars == <<table, objects, issued, now, nops, req, resp, listing, inflight>>

----------------------------------------------------------------------------
(* Bounds of the model *)

MaxOps == 3
MaxClock == 1
MaxIssued == 1
MaxObjects == 2

(* Program constants *)

MaxFileSize == 10485760
MaxFilenameLen == 255
DefaultPageSize == 50
MaxPageSize == 100

Null == "null"          \* Python None / an absent JSON field

AllowedTypes == {"image/jpeg", "image/png", "image/gif", "image/webp", "image/bmp"}

(* Input alphabets *)

UserIds == {<<"u">>, <<"v">>}
ImageIds == {<<"1">>, <<"2">>}
Filenames == {<<"a">>, <<"a", " ">>}

----------------------------------------------------------------------------
(* Helpers *)

SetMax(S) == CHOOSE x \in S : \A y \in S : y <= x

Min2(a, b) == IF a <= b THEN a ELSE b

Max2(a, b) == IF a >= b THEN a ELSE b

\* s[:m] of Python, m possibly negative
PyPrefix(s, m) ==
    IF m >= 0 THEN SubSeq(s, 1, Min2(m, Len(s)))
    ELSE SubSeq(s, 1, Max2(0, Len(s) + m))

\* s.split(c)[-1]
AfterLast(s, c) ==
    LET idx == {i \in 1..Len(s) : s[i] = c}
    IN IF idx = {} THEN s ELSE SubSeq(s, SetMax(idx) + 1, Len(s))

\* s.rsplit(c, 1)[0] when c occurs in s
BeforeLast(s, c) ==
    LET idx == {i \in 1..Len(s) : s[i] = c}
    IN SubSeq(s, 1, SetMax(idx) - 1)

Contains(s, c) == \E i \in 1..Len(s) : s[i] = c

SafeChars ==
    {"a","b","c","d","e","f","g","h","i","j","k","l","m",
     "n","o","p","q","r","s","t","u","v","w","x","y","z",
     "A","B","C","D","E","F","G","H","I","J","K","L","M",
     "N","O","P","Q","R","S","T","U","V","W","X","Y","Z",
     "0","1","2","3","4","5","6","7","8","9",".","_","-"}

\* re.sub(r'[^a-zA-Z0-9._-]', '_', filename)
ReplaceUnsafe(s) == [i \in 1..Len(s) |-> IF s[i] \in SafeChars THEN s[i] ELSE "_"]

\* the length limit of sanitize_filename
LimitLength(s) ==
    IF Len(s) > MaxFilenameLen
    THEN LET hasDot == Contains(s, ".")
             name == IF hasDot THEN BeforeLast(s, ".") ELSE s
             ext == IF hasDot THEN AfterLast(s, ".") ELSE <<>>
             max_name_len == MaxFilenameLen - Len(ext) - 1
         IN IF ext # <<>>
            THEN PyPrefix(name, max_name_len) \o <<".">> \o ext
            ELSE PyPrefix(name, MaxFilenameLen)
    ELSE s

sanitize_filename(filename) ==
    LimitLength(ReplaceUnsafe(AfterLast(AfterLast(filename, "/"), "\\")))

KeyPrefix == <<"i", "m", "a", "g", "e", "s", "/">>

\* f"images/{user_id}/{image_id}_{name}"
S3Key(user_id, image_id, name) ==
    KeyPrefix \o user_id \o <<"/">> \o image_id \o <<"_">> \o name

\* the key upload_presigned_url builds
IssueKey(user_id, image_id, filename) ==
    S3Key(user_id, image_id, sanitize_filename(filename))

\* the key complete_upload builds
CompleteKey(user_id, image_id, filename) ==
    S3Key(user_id, image_id, filename)

----------------------------------------------------------------------------
(* Finite maps with a dynamic domain *)

Put(f, k, v) == [x \in (DOMAIN f) \cup {k} |-> IF x = k THEN v ELSE f[x]]

Remove(f, k) == [x \in (DOMAIN f) \ {k} |-> f[x]]

EmptyMap == [x \in {} |-> Null]

----------------------------------------------------------------------------
(* Requests and responses *)

\* A JSON body.  kind "none": event['body'] is None; kind "bad": text that is
\* not JSON; kind "json": an object.  A field the object lacks is modelled by
\* the empty value of its type (<<>>, Null, 0), which the same validator
\* rejects.  tags and description are copied through unchanged and are left
\* out.
Body(kind, image_id, user_id, filename, content_type, file_size) ==
    [kind |-> kind, image_id |-> image_id, user_id |-> user_id,
     filename |-> filename, content_type |-> content_type,
     file_size |-> file_size]

NoBody == Body("none", <<>>, <<>>, <<>>, Null, 0)

BadJson == Body("bad", <<>>, <<>>, <<>>, Null, 0)

UploadBodies ==
    {NoBody, BadJson} \cup
    {Body("json", <<>>, u, f, "image/jpeg", 1) : u \in UserIds, f \in Filenames} \cup
    {Body("json", <<>>, <<"u">>, <<"a">>, "image/png", MaxFileSize),
     Body("json", <<>>, <<>>, <<"a">>, "image/jpeg", 1),
     Body("json", <<>>, <<"u">>, <<>>, "image/jpeg", 1),
     Body("json", <<>>, <<"u">>, <<"a">>, "image/svg+xml", 1),
     Body("json", <<>>, <<"u">>, <<"a">>, "image/jpeg", 0),
     Body("json", <<>>, <<"u">>, <<"a">>, "image/jpeg", MaxFileSize + 1)}

CompleteBodies ==
    {NoBody, BadJson} \cup
    {Body("json", i, u, f, "image/jpeg", 1) :
        i \in ImageIds, u \in UserIds, f \in Filenames} \cup
    {Body("json", <<"1">>, <<"u">>, <<"a">>, "image/png", MaxFileSize),
     Body("json", <<>>, <<"u">>, <<"a">>, "image/jpeg", 1),
     Body("json", <<"1">>, <<>>, <<"a">>, "image/jpeg", 1),
     Body("json", <<"1">>, <<"u">>, <<>>, "image/jpeg", 1),
     Body("json", <<"1">>, <<"u">>, <<"a">>, "image/svg+xml", 1),
     Body("json", <<"1">>, <<"u">>, <<"a">>, "image/jpeg", 0)}

DeleteBodies ==
    {NoBody, BadJson} \cup
    {Body("json", <<>>, u, <<>>, Null, 0) : u \in UserIds \cup {<<>>}}

\* A DynamoDB key map (LastEvaluatedKey / ExclusiveStartKey) as the handler
\* holds it: present (not None) or absent, and its attributes
NoKey == [present |-> FALSE, attrs |-> [image_id |-> <<>>]]

ScanKey(item) == [present |-> TRUE, attrs |-> [image_id |-> item.image_id]]

IndexKey(item) ==
    [present |-> TRUE,
     attrs |-> [image_id |-> item.image_id, user_id |-> item.user_id,
                upload_timestamp |-> item.upload_timestamp]]

\* A JSON value: an object (a key map), or any other value, of which the
\* handler only tests the truthiness
JsonObject(attrs) == [type |-> "object", truthy |-> TRUE, attrs |-> attrs]

JsonOther(truthy) == [type |-> "other", truthy |-> truthy, attrs |-> NoKey.attrs]

\* The next_token query parameter: absent (or ''), text that is not base64
\* of JSON, or base64 of the JSON text of a value
NoToken == [kind |-> "none", json |-> JsonOther(FALSE)]

GarbageToken == [kind |-> "garbage", json |-> JsonOther(FALSE)]

\* Variant: only the table's own key attribute is carried in the token
EncodeTokenPrimaryOnly(next_key) ==
    [kind |-> "b64json",
     json |-> JsonObject([image_id |-> next_key.attrs.image_id])]

\* base64.b64encode(json.dumps(next_key).encode()).decode(): the attribute
\* values are strings, which JSON text carries unchanged
EncodeToken(next_key) == [kind |-> "b64json", json |-> JsonObject(next_key.attrs)]

\* json.loads(base64.b64decode(next_token)) succeeds
Decodable(next_token) == next_token.kind = "b64json"

DecodeToken(next_token) == next_token.json

\* The text of an exception (str(e)).  A backend puts a text of its own
\* choosing into the errors it raises; the text of an exception raised by the
\* handler's own code (json.loads, int, pydantic, a NameError) is fixed by
\* the request.
ErrorTexts == {"e1", "e2"}

FixedText == "fixed"

Texts == ErrorTexts \cup {FixedText}

\* The message of a response: none, or f"Failed to <action>: {str(e)}"
NoMessage == [prefix |-> "none", text |-> "none"]

FailureMessage(op, text) == [prefix |-> op, text |-> text]

\* create_response, reduced to what the handlers decide: the status code, the
\* error kind, the backend calls the handler made, and the payload fields.
Response(status, error, calls, image_id, s3_key) ==
    [status |-> status, error |-> error, calls |-> calls,
     image_id |-> image_id, s3_key |-> s3_key, data_status |-> Null,
     images |-> <<>>, count |-> 0, next_token |-> NoToken, has_more |-> FALSE,
     last_key |-> NoKey, message |-> NoMessage]

\* A success payload that carries a "status" field
WithStatus(response, status) == [response EXCEPT !.data_status = status]

success_response(calls, image_id, s3_key) ==
    Response(200, "none", calls, image_id, s3_key)

validation_error_response(calls) ==
    Response(400, "ValidationError", calls, <<>>, <<>>)

unauthorized_response(calls) ==
    Response(401, "Unauthorized", calls, <<>>, <<>>)

\* Variant: the error kind is left at error_response's default
not_found_response_default(calls) ==
    Response(400, "BadRequest", calls, <<>>, <<>>)

not_found_response(calls) ==
    Response(404, "NotFound", calls, <<>>, <<>>)

\* Variant: the exception leaves the handler and no response is built
internal_error_response_escapes(calls) ==
    Response(0, "none", calls, <<>>, <<>>)

internal_error_response(calls) ==
    Response(500, "InternalError", calls, <<>>, <<>>)

\* The outer `except Exception as e` of a handler:
\* internal_error_response(f"Failed to <action>: {str(e)}")
Failed(op, text, calls) ==
    [internal_error_response(calls) EXCEPT !.message = FailureMessage(op, text)]

NoResponse == Response(0, "none", <<>>, <<>>, <<>>)

\* A date query parameter: absent, text that is not ISO-8601, or an ISO
\* timestamp (the clock value it denotes)
NoDate == [kind |-> "none", t |-> 0]

BadDate == [kind |-> "bad", t |-> 0]

Date(t) == [kind |-> "iso", t |-> t]

\* The limit query parameter: absent, an integer literal, or other text
NoLimit == [kind |-> "none", n |-> 0]

BadLimit == [kind |-> "bad", n |-> 0]

Limit(n) == [kind |-> "int", n |-> n]

\* The query string of GET /images
Query(user_id, start_date, end_date, limit, next_token) ==
    [user_id |-> user_id, start_date |-> start_date, end_date |-> end_date,
     limit |-> limit, next_token |-> next_token]

NoQuery == Query(<<>>, NoDate, NoDate, NoLimit, NoToken)

\* A request as the handler receives it, together with the backend calls
\* that fail while it is served
Request(op, body, image_id, faults) ==
    [op |-> op, body |-> body, image_id |-> image_id, query |-> NoQuery,
     faults |-> faults, retry |-> FALSE, text |-> FixedText, arg |-> Null]

ListRequest(query, faults) ==
    [op |-> "list_images", body |-> NoBody, image_id |-> <<>>, query |-> query,
     faults |-> faults, retry |-> FALSE, text |-> FixedText, arg |-> Null]

\* Variant: the size limit is exclusive
UploadPresignedUrlRequestBelowMax(body) ==
    /\ Len(body.user_id) >= 1
    /\ Len(body.filename) >= 1
    /\ body.content_type \in AllowedTypes
    /\ body.file_size > 0
    /\ body.file_size < MaxFileSize

\* UploadPresignedUrlRequest
UploadPresignedUrlRequest(body) ==
    /\ Len(body.user_id) >= 1
    /\ Len(body.filename) >= 1
    /\ body.content_type \in AllowedTypes
    /\ body.file_size > 0
    /\ body.file_size <= MaxFileSize

\* CompleteUploadRequest
CompleteUploadRequest(body) ==
    /\ Len(body.image_id) >= 1
    /\ Len(body.user_id) >= 1
    /\ Len(body.filename) >= 1
    /\ body.content_type \in AllowedTypes
    /\ body.file_size > 0

\* Variant: the model accepts every content type and size
ImageMetadataValidAny(content_type, file_size) == TRUE

\* ImageMetadata: the validators of the model the record is built with
ImageMetadataValid(content_type, file_size) ==
    /\ content_type \in AllowedTypes
    /\ file_size > 0

\* tags of an ImageMetadata (Optional[List[str]]): None, or a list
NoTags == [kind |-> "none", list |-> <<>>]

Tags(list) == [kind |-> "list", list |-> list]

\* Variant: the record is stored without being marked completed
ItemPending(image_id, user_id, filename, content_type, file_size, s3_key, ts) ==
    [image_id |-> image_id, user_id |-> user_id, filename |-> filename,
     content_type |-> content_type, file_size |-> file_size,
     upload_timestamp |-> ts, tags |-> NoTags, description |-> Null,
     status |-> "pending", s3_key |-> s3_key,
     created_at |-> ts, updated_at |-> ts]

\* The item put_item writes for the metadata complete_upload builds
Item(image_id, user_id, filename, content_type, file_size, s3_key, ts) ==
    [image_id |-> image_id, user_id |-> user_id, filename |-> filename,
     content_type |-> content_type, file_size |-> file_size,
     upload_timestamp |-> ts, tags |-> NoTags, description |-> Null,
     status |-> "completed", s3_key |-> s3_key,
     created_at |-> ts, updated_at |-> ts]

----------------------------------------------------------------------------
(* Initial state *)

\* A client's pagination: the query it repeats, the entries it has been
\* given so far and the next_token it will send next
NoListing == [active |-> FALSE, query |-> NoQuery, items |-> <<>>, token |-> NoToken]

\* Invocations of the complete-upload and delete handlers that run side by
\* side: a complete-upload and its retries, and one delete
MaxCompletes == 2

Invocations == {<<"complete_upload", i>> : i \in 1..MaxCompletes} \cup {<<"delete_image", 1>>}

\* An invocation that has not started: the locals of the handler are unset
Idle == [pc |-> "idle", status |-> 0, s3_key |-> <<>>, s3_metadata |-> [found |-> FALSE, content_type |-> Null, content_length |-> 0]]

NoInvocations == [i \in Invocations |-> Idle]

Init ==
    /\ table = EmptyMap
    /\ objects = EmptyMap
    /\ issued = {}
    /\ now = 0
    /\ nops = 0
    /\ req = Request("init", NoBody, <<>>, {})
    /\ resp = NoResponse
    /\ listing = NoListing
    /\ inflight = NoInvocations

----------------------------------------------------------------------------
(* The environment *)

\* datetime.utcnow() advances between requests
Tick ==
    /\ now < MaxClock
    /\ now' = now + 1
    /\ UNCHANGED <<table, objects, issued, nops, req, resp, listing, inflight>>

\* A client POSTs a file with a credential it holds.  The presigned POST
\* policy pins the key, the Content-Type and the exact content length.
ClientTransfer(cred) ==
    /\ cred \in issued
    /\ cred.s3_key \in DOMAIN objects \/ Cardinality(DOMAIN objects) < MaxObjects
    /\ objects' = Put(objects, cred.s3_key,
                      [content_type |-> cred.content_type,
                       content_length |-> cred.file_size])
    /\ req' = Request("transfer", NoBody, <<>>, {})
    /\ resp' = NoResponse
    /\ UNCHANGED <<table, issued, now, nops, listing, inflight>>

\* The ExpiresIn of a presigned POST runs out: the credential can no longer
\* be used.  Expiry only takes a transfer away, so it is left to the
\* specification that follows a stored image over a longer time.
CredentialExpires(cred) ==
    /\ cred \in issued
    /\ issued' = issued \ {cred}
    /\ UNCHANGED <<table, objects, now, nops, req, resp, listing, inflight>>

\* An object is removed from the bucket without going through the API
OutOfBandDelete(key) ==
    /\ key \in DOMAIN objects
    /\ objects' = Remove(objects, key)
    /\ req' = Request("oob_delete", NoBody, <<>>, {})
    /\ resp' = NoResponse
    /\ UNCHANGED <<table, issued, now, nops, listing, inflight>>

----------------------------------------------------------------------------
(* POST /images/upload-url *)

\* Variant: a pending record is persisted when the credential is issued
IssueUploadPending(body, uuid, fault, keep, text) ==
    /\ nops < MaxOps
    /\ text \in ErrorTexts <=> fault
    \* the id, the signing outcome and the client's choice to keep the
    \* credential exist only once the request has passed validation
    /\ (body.kind # "json" \/ ~UploadPresignedUrlRequest(body))
          => (uuid = <<"1">> /\ ~fault /\ ~keep)
    /\ fault => ~keep
    \* uuid.uuid4() returns an id that is in use nowhere
    /\ (body.kind = "json" /\ UploadPresignedUrlRequest(body))
          => /\ uuid \notin DOMAIN table
             /\ \A c \in issued : c.image_id # uuid
    /\ nops' = nops + 1
    /\ req' = [Request("issue_upload", body, <<>>,
                       IF fault THEN {"generate_presigned_post"} ELSE {})
                  EXCEPT !.text = text]
    /\ UNCHANGED <<objects, now, listing, inflight>>
    /\ IF body.kind # "json"
       THEN \* json.loads raises inside the outer try
            /\ resp' = Failed("issue_upload", text, <<>>)
            /\ UNCHANGED <<issued, table>>
       ELSE IF ~UploadPresignedUrlRequest(body)
       THEN /\ resp' = validation_error_response(<<>>)
            /\ UNCHANGED <<issued, table>>
       ELSE LET s3_key == IssueKey(body.user_id, uuid, body.filename)
                cred == [image_id |-> uuid, s3_key |-> s3_key,
                         content_type |-> body.content_type,
                         file_size |-> body.file_size]
            IN IF fault
               THEN /\ resp' = Failed("issue_upload", text, <<"generate_presigned_post">>)
                    /\ UNCHANGED <<issued, table>>
               ELSE /\ resp' = success_response(<<"generate_presigned_post">>,
                                                uuid, s3_key)
                    /\ table' = Put(table, uuid,
                                     ItemPending(uuid, body.user_id, body.filename,
                                                 body.content_type, body.file_size,
                                                 s3_key, now))
                    /\ issued' = IF keep /\ Cardinality(issued) < MaxIssued
                                 THEN issued \cup {cred} ELSE issued

IssueUpload(body, uuid, fault, keep, text) ==
    /\ nops < MaxOps
    \* str(e) is the backend's to choose exactly when a backend call fails
    /\ text \in ErrorTexts <=> fault
    \* the id, the signing outcome and the client's choice to keep the
    \* credential exist only once the request has passed validation
    /\ (body.kind # "json" \/ ~UploadPresignedUrlRequest(body))
          => (uuid = <<"1">> /\ ~fault /\ ~keep)
    /\ fault => ~keep
    \* uuid.uuid4() returns an id that is in use nowhere
    /\ (body.kind = "json" /\ UploadPresignedUrlRequest(body))
          => /\ uuid \notin DOMAIN table
             /\ \A c \in issued : c.image_id # uuid
    /\ nops' = nops + 1
    /\ req' = [Request("issue_upload", body, <<>>,
                       IF fault THEN {"generate_presigned_post"} ELSE {})
                  EXCEPT !.text = text]
    /\ UNCHANGED <<table, objects, now, listing, inflight>>
    /\ IF body.kind # "json"
       THEN \* json.loads raises inside the outer try
            /\ resp' = Failed("issue_upload", text, <<>>)
            /\ UNCHANGED issued
       ELSE IF ~UploadPresignedUrlRequest(body)
       THEN /\ resp' = validation_error_response(<<>>)
            /\ UNCHANGED issued
       ELSE LET s3_key == IssueKey(body.user_id, uuid, body.filename)
                cred == [image_id |-> uuid, s3_key |-> s3_key,
                         content_type |-> body.content_type,
                         file_size |-> body.file_size]
            IN IF fault
               THEN /\ resp' = Failed("issue_upload", text, <<"generate_presigned_post">>)
                    /\ UNCHANGED issued
               ELSE /\ resp' = success_response(<<"generate_presigned_post">>,
                                                uuid, s3_key)
                    /\ issued' = IF keep /\ Cardinality(issued) < MaxIssued
                                 THEN issued \cup {cred} ELSE issued

----------------------------------------------------------------------------
(* POST /images/complete *)

\* Variant: every head_object outcome is taken for "exists"
check_object_exists_always(s3_key) == TRUE

\* S3Service.check_object_exists: head_object answers, or answers 404
check_object_exists(s3_key) == s3_key \in DOMAIN objects

\* S3Service.get_object_metadata: the head_object fields, or None on 404
get_object_metadata(s3_key) ==
    IF s3_key \in DOMAIN objects
    THEN [found |-> TRUE, content_type |-> objects[s3_key].content_type,
          content_length |-> objects[s3_key].content_length]
    ELSE [found |-> FALSE, content_type |-> Null, content_length |-> 0]

\* Variant: the declared content type is recorded
RecordedTypeDeclared(body, s3_metadata) == body.content_type

\* content_type and file_size of the record: the store's values when it
\* returns metadata, else the declared ones
RecordedType(body, s3_metadata) ==
    IF s3_metadata.found THEN s3_metadata.content_type ELSE body.content_type

RecordedSize(body, s3_metadata) ==
    IF s3_metadata.found THEN s3_metadata.content_length ELSE body.file_size

\* Variant: the item is written although the call reports a failure
put_item_partial(metadata, fails) ==
    [failed |-> fails, table |-> Put(table, metadata.image_id, metadata)]

\* Variant: an item is written only under a key that holds none
put_item_if_absent(metadata, fails) ==
    [failed |-> fails,
     table |-> IF fails \/ metadata.image_id \in DOMAIN table
               THEN table ELSE Put(table, metadata.image_id, metadata)]

\* DynamoDBService.put_item: the item replaces whatever the table holds for
\* its image_id, or the call raises and the table is as it was
put_item(metadata, fails) ==
    [failed |-> fails,
     table |-> IF fails THEN table ELSE Put(table, metadata.image_id, metadata)]

\* The request repeats the body of the request before it, which failed at
\* put_item
RetriesFailedPut(body) ==
    /\ req.op = "complete_upload"
    /\ "put_item" \in req.faults
    /\ req.body = body

CompleteFaults == {"none", "check_object_exists", "get_object_metadata", "put_item"}

\* A fault is injected only at a call the handler reaches
CompleteReaches(body, call) ==
    LET valid == body.kind = "json" /\ CompleteUploadRequest(body)
        s3_key == CompleteKey(body.user_id, body.image_id, body.filename)
        exists == valid /\ check_object_exists(s3_key)
        s3_metadata == get_object_metadata(s3_key)
    IN CASE call = "none" -> TRUE
         [] call = "check_object_exists" -> valid
         [] call = "get_object_metadata" -> exists
         [] call = "put_item" ->
                exists /\ ImageMetadataValid(RecordedType(body, s3_metadata),
                                             RecordedSize(body, s3_metadata))

CompleteUpload(body, fault, text) ==
    /\ nops < MaxOps
    /\ text \in ErrorTexts <=> fault # "none"
    /\ CompleteReaches(body, fault)
    /\ nops' = nops + 1
    /\ req' = [Request("complete_upload", body, <<>>, {fault} \ {"none"})
                  EXCEPT !.retry = RetriesFailedPut(body), !.text = text]
    /\ UNCHANGED <<objects, issued, now, listing, inflight>>
    /\ IF body.kind # "json"
       THEN \* json.loads raises inside the outer try
            /\ resp' = Failed("complete_upload", text, <<>>)
            /\ UNCHANGED table
       ELSE IF ~CompleteUploadRequest(body)
       THEN /\ resp' = validation_error_response(<<>>)
            /\ UNCHANGED table
       ELSE LET s3_key == CompleteKey(body.user_id, body.image_id, body.filename)
                s3_metadata == get_object_metadata(s3_key)
                content_type == RecordedType(body, s3_metadata)
                file_size == RecordedSize(body, s3_metadata)
            IN IF fault = "check_object_exists"
               THEN /\ resp' = Failed("complete_upload", text, <<"head_object">>)
                    /\ UNCHANGED table
               ELSE IF ~check_object_exists(s3_key)
               THEN /\ resp' = not_found_response(<<"head_object">>)
                    /\ UNCHANGED table
               ELSE IF fault = "get_object_metadata"
               THEN /\ resp' = Failed("complete_upload", text, <<"head_object", "head_object">>)
                    /\ UNCHANGED table
               ELSE IF ~ImageMetadataValid(content_type, file_size)
               THEN \* pydantic ValidationError, caught by except Exception
                    /\ resp' = Failed("complete_upload", text, <<"head_object", "head_object">>)
                    /\ UNCHANGED table
               ELSE LET put == put_item(Item(body.image_id, body.user_id,
                                             body.filename, content_type,
                                             file_size, s3_key, now),
                                        fault = "put_item")
                        calls == <<"head_object", "head_object", "put_item">>
                    IN /\ table' = put.table
                       /\ resp' = IF put.failed
                                  THEN Failed("complete_upload", text, calls)
                                  ELSE WithStatus(
                                         success_response(calls, body.image_id,
                                                          s3_key),
                                         "completed")

----------------------------------------------------------------------------
(* The record store's point read *)

\* ImageMetadata(**item): the fields of the model; created_at and updated_at
\* are not fields of ImageMetadata and are dropped
ImageMetadata(item) ==
    [image_id |-> item.image_id, user_id |-> item.user_id,
     filename |-> item.filename, content_type |-> item.content_type,
     file_size |-> item.file_size, upload_timestamp |-> item.upload_timestamp,
     tags |-> item.tags, description |-> item.description,
     status |-> item.status, s3_key |-> item.s3_key]

HasItem(image_id) == image_id \in DOMAIN table

get_item(image_id) == ImageMetadata(table[image_id])

----------------------------------------------------------------------------
(* DELETE /images/{image_id} *)

DeleteFaults == SUBSET {"get_item", "delete_object", "delete_item"}

\* Variant: the ownership comparison is skipped
AuthorizedAnyone(metadata, user_id) == TRUE

\* The ownership comparison of delete_image
Authorized(metadata, user_id) == metadata.user_id = user_id

DeleteReaches(image_id, body, faults) ==
    LET parsed == image_id # <<>> /\ body.kind = "json" /\ body.user_id # <<>>
        owned == parsed /\ HasItem(image_id)
                   /\ Authorized(get_item(image_id), body.user_id)
    IN /\ "get_item" \in faults => parsed
       /\ "delete_object" \in faults => (owned /\ "get_item" \notin faults)
       /\ "delete_item" \in faults => (owned /\ "get_item" \notin faults)

\* Variant: a failure to delete the object aborts the request
DeleteOwnedStrict(image_id, faults) ==
    LET s3_key == get_item(image_id).s3_key
        calls == <<"get_item", "delete_object", "delete_item">>
    IN IF "delete_object" \in faults
       THEN [objects |-> objects, table |-> table,
             resp |-> internal_error_response(<<"get_item", "delete_object">>)]
       ELSE [objects |-> Remove(objects, s3_key),
             table |-> IF "delete_item" \in faults
                       THEN table ELSE Remove(table, image_id),
             resp |-> IF "delete_item" \in faults
                      THEN internal_error_response(calls)
                      ELSE WithStatus(success_response(calls, image_id, <<>>),
                                      "deleted")]

\* Variant: the record is deleted before the object
DeleteOwnedRecordFirst(image_id, faults) ==
    LET s3_key == get_item(image_id).s3_key
        calls == <<"get_item", "delete_item", "delete_object">>
    IN IF "delete_item" \in faults
       THEN [objects |-> objects, table |-> table,
             resp |-> internal_error_response(<<"get_item", "delete_item">>)]
       ELSE [objects |-> IF "delete_object" \in faults
                         THEN objects ELSE Remove(objects, s3_key),
             table |-> Remove(table, image_id),
             resp |-> WithStatus(success_response(calls, image_id, <<>>),
                                 "deleted")]

\* The steps after the ownership check: the object is deleted, a failure of
\* that is logged and swallowed, then the record is deleted
DeleteOwned(image_id, faults) ==
    LET s3_key == get_item(image_id).s3_key
        calls == <<"get_item", "delete_object", "delete_item">>
    IN [objects |-> IF "delete_object" \in faults
                    THEN objects ELSE Remove(objects, s3_key),
        table |-> IF "delete_item" \in faults
                  THEN table ELSE Remove(table, image_id),
        resp |-> IF "delete_item" \in faults
                 THEN internal_error_response(calls)
                 ELSE WithStatus(success_response(calls, image_id, <<>>),
                                 "deleted")]

DeleteImage(image_id, body, faults, text) ==
    /\ nops < MaxOps
    /\ text \in ErrorTexts <=> faults # {}
    /\ DeleteReaches(image_id, body, faults)
    /\ nops' = nops + 1
    /\ req' = [Request("delete_image", body, image_id, faults)
                  EXCEPT !.text = text]
    /\ UNCHANGED <<issued, now, listing, inflight>>
    /\ IF image_id = <<>>
       THEN /\ resp' = validation_error_response(<<>>)
            /\ UNCHANGED <<table, objects>>
       ELSE IF body.kind # "json"
       THEN \* json.loads raises inside the outer try
            /\ resp' = Failed("delete_image", text, <<>>)
            /\ UNCHANGED <<table, objects>>
       ELSE IF body.user_id = <<>>
       THEN /\ resp' = validation_error_response(<<>>)
            /\ UNCHANGED <<table, objects>>
       ELSE IF "get_item" \in faults
       THEN /\ resp' = Failed("delete_image", text, <<"get_item">>)
            /\ UNCHANGED <<table, objects>>
       ELSE IF ~HasItem(image_id)
       THEN /\ resp' = not_found_response(<<"get_item">>)
            /\ UNCHANGED <<table, objects>>
       ELSE IF ~Authorized(get_item(image_id), body.user_id)
       THEN /\ resp' = unauthorized_response(<<"get_item">>)
            /\ UNCHANGED <<table, objects>>
       ELSE /\ objects' = DeleteOwned(image_id, faults).objects
            /\ table' = DeleteOwned(image_id, faults).table
            /\ resp' = LET response == DeleteOwned(image_id, faults).resp
                       IN IF response.status = 500
                          THEN Failed("delete_image", text, response.calls)
                          ELSE response

----------------------------------------------------------------------------
(* GET /images/{image_id}/download-url *)

DownloadFaults == {"none", "get_item", "check_object_exists", "generate_presigned_get"}

DownloadReaches(image_id, call) ==
    LET found == image_id # <<>> /\ HasItem(image_id)
    IN CASE call = "none" -> TRUE
         [] call = "get_item" -> image_id # <<>>
         [] call = "check_object_exists" -> found
         [] call = "generate_presigned_get" ->
                found /\ check_object_exists(get_item(image_id).s3_key)

\* Variant: a record whose object is missing is removed when it is asked for
GetDownloadUrlPruning(image_id, fault, text) ==
    /\ nops < MaxOps
    /\ text \in ErrorTexts <=> fault # "none"
    /\ DownloadReaches(image_id, fault)
    /\ nops' = nops + 1
    /\ req' = [Request("get_download_url", NoBody, image_id, {fault} \ {"none"})
                  EXCEPT !.text = text]
    /\ UNCHANGED <<objects, issued, now, listing, inflight>>
    /\ table' = IF /\ fault = "none"
                   /\ image_id # <<>>
                   /\ HasItem(image_id)
                   /\ ~check_object_exists(get_item(image_id).s3_key)
                THEN Remove(table, image_id) ELSE table
    /\ IF image_id = <<>>
       THEN \* validation_error_response is not imported by this handler: the
            \* NameError is caught by the outer except
            resp' = Failed("get_download_url", text, <<>>)
       ELSE IF fault = "get_item"
       THEN resp' = Failed("get_download_url", text, <<"get_item">>)
       ELSE IF ~HasItem(image_id)
       THEN resp' = not_found_response(<<"get_item">>)
       ELSE LET metadata == get_item(image_id)
            IN IF fault = "check_object_exists"
               THEN resp' = Failed("get_download_url", text, <<"get_item", "head_object">>)
               ELSE IF ~check_object_exists(metadata.s3_key)
               THEN resp' = not_found_response(<<"get_item", "head_object">>)
               ELSE IF fault = "generate_presigned_get"
               THEN resp' = Failed("get_download_url", text, <<"get_item", "head_object", "generate_presigned_url">>)
               ELSE resp' = success_response(
                                <<"get_item", "head_object", "generate_presigned_url">>,
                                image_id, metadata.s3_key)

GetDownloadUrl(image_id, fault, text) ==
    /\ nops < MaxOps
    /\ text \in ErrorTexts <=> fault # "none"
    /\ DownloadReaches(image_id, fault)
    /\ nops' = nops + 1
    /\ req' = [Request("get_download_url", NoBody, image_id, {fault} \ {"none"})
                  EXCEPT !.text = text]
    /\ UNCHANGED <<table, objects, issued, now, listing, inflight>>
    /\ IF image_id = <<>>
       THEN \* validation_error_response is not imported by this handler: the
            \* NameError is caught by the outer except
            resp' = Failed("get_download_url", text, <<>>)
       ELSE IF fault = "get_item"
       THEN resp' = Failed("get_download_url", text, <<"get_item">>)
       ELSE IF ~HasItem(image_id)
       THEN resp' = not_found_response(<<"get_item">>)
       ELSE LET metadata == get_item(image_id)
            IN IF fault = "check_object_exists"
               THEN resp' = Failed("get_download_url", text, <<"get_item", "head_object">>)
               ELSE IF ~check_object_exists(metadata.s3_key)
               THEN resp' = not_found_response(<<"get_item", "head_object">>)
               ELSE IF fault = "generate_presigned_get"
               THEN resp' = Failed("get_download_url", text, <<"get_item", "head_object", "generate_presigned_url">>)
               ELSE resp' = success_response(
                                <<"get_item", "head_object", "generate_presigned_url">>,
                                image_id, metadata.s3_key)

----------------------------------------------------------------------------
(* The table's range reads: Query on UserIdTimestampIndex and Scan *)

\* Items that share an index key are kept in primary-key order
IdOrder == <<<<"1">>, <<"2">>, <<"3">>>>

IdRank(image_id) == CHOOSE i \in 1..Len(IdOrder) : IdOrder[i] = image_id

\* Variant: the continuation resumes by upload_timestamp alone
IndexRankStampOnly(upload_timestamp, image_id) ==
    upload_timestamp * (Len(IdOrder) + 1)

\* Position in the index partition: by upload_timestamp, then by image_id
IndexRank(upload_timestamp, image_id) ==
    upload_timestamp * (Len(IdOrder) + 1) + IdRank(image_id)

\* Scan walks the table in the backend's hash order of image_id
ScanOrder == <<<<"2">>, <<"3">>, <<"1">>>>

ScanRank(image_id) == CHOOSE i \in 1..Len(ScanOrder) : ScanOrder[i] = image_id

\* Variant: the upper bound of the two-sided range is exclusive
KeyConditionHalfOpen(item, user_id, start_date, end_date) ==
    /\ item.user_id = user_id
    /\ IF start_date.kind = "iso" /\ end_date.kind = "iso"
       THEN start_date.t <= item.upload_timestamp
              /\ item.upload_timestamp < end_date.t
       ELSE IF start_date.kind = "iso"
       THEN item.upload_timestamp >= start_date.t
       ELSE IF end_date.kind = "iso"
       THEN item.upload_timestamp <= end_date.t
       ELSE TRUE

\* The KeyConditionExpression query_by_user builds
KeyCondition(item, user_id, start_date, end_date) ==
    /\ item.user_id = user_id
    /\ IF start_date.kind = "iso" /\ end_date.kind = "iso"
       THEN start_date.t <= item.upload_timestamp
              /\ item.upload_timestamp <= end_date.t
       ELSE IF start_date.kind = "iso"
       THEN item.upload_timestamp >= start_date.t
       ELSE IF end_date.kind = "iso"
       THEN item.upload_timestamp <= end_date.t
       ELSE TRUE

\* Variant: ScanIndexForward left at its default, oldest first
RECURSIVE Ascending(_)
Ascending(ids) ==
    IF ids = {} THEN <<>>
    ELSE LET m == CHOOSE x \in ids : \A y \in ids :
                      IndexRank(table[x].upload_timestamp, x)
                        <= IndexRank(table[y].upload_timestamp, y)
         IN <<m>> \o Ascending(ids \ {m})

\* ScanIndexForward=False: newest first
RECURSIVE Descending(_)
Descending(ids) ==
    IF ids = {} THEN <<>>
    ELSE LET m == CHOOSE x \in ids : \A y \in ids :
                      IndexRank(table[y].upload_timestamp, y)
                        <= IndexRank(table[x].upload_timestamp, x)
         IN <<m>> \o Descending(ids \ {m})

RECURSIVE ScanSeq(_)
ScanSeq(ids) ==
    IF ids = {} THEN <<>>
    ELSE LET m == CHOOSE x \in ids : \A y \in ids : ScanRank(x) <= ScanRank(y)
         IN <<m>> \o ScanSeq(ids \ {m})

\* The ids a Query traverses, in order, after the ExclusiveStartKey
QueryTraversal(user_id, start_date, end_date, start_key) ==
    LET match == {id \in DOMAIN table :
                     KeyCondition(table[id], user_id, start_date, end_date)}
        after == IF start_key.present
                 THEN {id \in match :
                          IndexRank(table[id].upload_timestamp, id)
                            < IndexRank(start_key.attrs.upload_timestamp,
                                        start_key.attrs.image_id)}
                 ELSE match
    IN Descending(after)

\* Variant: the scan starts over whatever ExclusiveStartKey it is given
ScanTraversalFromStart(start_key) == ScanSeq(DOMAIN table)

ScanTraversal(start_key) ==
    LET after == IF start_key.present
                 THEN {id \in DOMAIN table :
                          ScanRank(id) > ScanRank(start_key.attrs.image_id)}
                 ELSE DOMAIN table
    IN ScanSeq(after)

\* Variant: the backend pays no attention to Limit
PageOfUnlimited(traversal, limit, cap, lek_at_end) ==
    LET n == Min2(cap, Len(traversal))
    IN [ids |-> SubSeq(traversal, 1, n), more |-> n < Len(traversal)]

\* One page of a traversal.  The backend stops after Limit items, or earlier
\* at its own page-size cap; when it stops exactly at the end of the data it
\* may or may not report a LastEvaluatedKey.
PageOf(traversal, limit, cap, lek_at_end) ==
    LET stop == Min2(limit, cap)
        n == Min2(stop, Len(traversal))
        more == n < Len(traversal) \/ (n = stop /\ n > 0 /\ lek_at_end)
    IN [ids |-> SubSeq(traversal, 1, n), more |-> more]

\* The backend's check of an ExclusiveStartKey: a map with the key attributes
\* of the index (of the table, for a scan).  Whatever else the backend may
\* refuse is covered by the handlers' fault choice.
QueryAcceptsKey(key) ==
    /\ key.type = "object"
    /\ DOMAIN key.attrs = {"image_id", "user_id", "upload_timestamp"}

ScanAcceptsKey(key) ==
    /\ key.type = "object"
    /\ DOMAIN key.attrs = {"image_id"}

\* query_by_user: (images, next_key), or failed
query_by_user(user_id, start_date, end_date, limit, last_evaluated_key, cap, lek_at_end) ==
    LET use_key == last_evaluated_key.truthy
        start_key == [present |-> use_key, attrs |-> last_evaluated_key.attrs]
    IN IF use_key /\ ~QueryAcceptsKey(last_evaluated_key)
       THEN [failed |-> TRUE, images |-> <<>>, next_key |-> NoKey]
       ELSE LET page == PageOf(QueryTraversal(user_id, start_date, end_date,
                                              start_key),
                               limit, cap, lek_at_end)
                images == [i \in 1..Len(page.ids) |-> ImageMetadata(table[page.ids[i]])]
            IN [failed |-> FALSE, images |-> images,
                next_key |-> IF page.more
                             THEN IndexKey(images[Len(images)]) ELSE NoKey]

\* scan_all: (images, next_key), or failed
scan_all(limit, last_evaluated_key, cap, lek_at_end) ==
    LET use_key == last_evaluated_key.truthy
        start_key == [present |-> use_key, attrs |-> last_evaluated_key.attrs]
    IN IF use_key /\ ~ScanAcceptsKey(last_evaluated_key)
       THEN [failed |-> TRUE, images |-> <<>>, next_key |-> NoKey]
       ELSE LET page == PageOf(ScanTraversal(start_key), limit, cap, lek_at_end)
                images == [i \in 1..Len(page.ids) |-> ImageMetadata(table[page.ids[i]])]
            IN [failed |-> FALSE, images |-> images,
                next_key |-> IF page.more
                             THEN ScanKey(images[Len(images)]) ELSE NoKey]

----------------------------------------------------------------------------
(* GET /images *)

\* int(query_params.get('limit', 50))
ParsedLimit(limit) == IF limit.kind = "none" THEN DefaultPageSize ELSE limit.n

\* ListImagesRequest
ListImagesRequest(query) ==
    /\ ParsedLimit(query.limit) >= 1
    /\ ParsedLimit(query.limit) <= MaxPageSize
    /\ query.start_date.kind # "bad"
    /\ query.end_date.kind # "bad"

\* The handler gets as far as the table read
ListReaches(query) ==
    /\ query.limit.kind # "bad"
    /\ ListImagesRequest(query)
    /\ query.next_token.kind # "garbage"

\* The same query with no next_token
Shape(query) == [query EXCEPT !.next_token = NoToken]

\* The request is the next page of the client's pagination
Continues(query) ==
    /\ listing.active
    /\ listing.token # NoToken
    /\ query.next_token = listing.token
    /\ Shape(query) = listing.query

\* Variant: has_more is guessed from the page being non-empty
ListResponseByCount(calls, images, next_key) ==
    [status |-> 200, error |-> "none", calls |-> calls,
     image_id |-> <<>>, s3_key |-> <<>>, data_status |-> Null,
     images |-> images, count |-> Len(images),
     next_token |-> IF next_key.present THEN EncodeToken(next_key) ELSE NoToken,
     has_more |-> images # <<>>,
     last_key |-> next_key, message |-> NoMessage]

\* The 200 response of list_images.  next_token is set when next_key is
\* truthy and has_more when it is not None; the LastEvaluatedKey the backend
\* returned (last_key) is kept beside them.  A key the backend returns is a
\* non-empty map, so both tests agree on it.
ListResponse(calls, images, next_key) ==
    [status |-> 200, error |-> "none", calls |-> calls,
     image_id |-> <<>>, s3_key |-> <<>>, data_status |-> Null,
     images |-> images, count |-> Len(images),
     next_token |-> IF next_key.present THEN EncodeToken(next_key) ELSE NoToken,
     has_more |-> next_key.present,
     last_key |-> next_key, message |-> NoMessage]

ListImages(query, cap, lek_at_end, fault, text) ==
    /\ nops < MaxOps
    /\ text \in ErrorTexts <=> fault
    /\ (~ListReaches(query) \/ fault) => (cap = 1 /\ ~lek_at_end)
    /\ fault => ListReaches(query)
    /\ nops' = nops + 1
    /\ req' = [ListRequest(query, IF fault THEN {"read"} ELSE {})
                  EXCEPT !.text = text]
    /\ UNCHANGED <<table, objects, issued, now, inflight>>
    /\ IF query.limit.kind = "bad"
       THEN \* int() raises ValueError inside the outer try
            /\ resp' = Failed("list_images", text, <<>>)
            /\ UNCHANGED listing
       ELSE IF ~ListImagesRequest(query)
       THEN /\ resp' = validation_error_response(<<>>)
            /\ UNCHANGED listing
       ELSE IF query.next_token.kind = "garbage"
       THEN /\ resp' = validation_error_response(<<>>)
            /\ UNCHANGED listing
       ELSE LET last_evaluated_key ==
                    IF Decodable(query.next_token)
                    THEN DecodeToken(query.next_token) ELSE JsonOther(FALSE)
                by_user == query.user_id # <<>>
                call == IF by_user THEN "query" ELSE "scan"
                result ==
                    IF by_user
                    THEN query_by_user(query.user_id, query.start_date,
                                       query.end_date, ParsedLimit(query.limit),
                                       last_evaluated_key, cap, lek_at_end)
                    ELSE scan_all(ParsedLimit(query.limit), last_evaluated_key,
                                  cap, lek_at_end)
            IN IF fault \/ result.failed
               THEN /\ resp' = Failed("list_images", text, <<call>>)
                    /\ UNCHANGED listing
               ELSE /\ resp' = ListResponse(<<call>>, result.images, result.next_key)
                    /\ listing' =
                         IF query.next_token = NoToken
                         THEN [active |-> TRUE, query |-> query,
                               items |-> result.images,
                               token |-> resp'.next_token]
                         ELSE IF Continues(query)
                         THEN [listing EXCEPT !.items = @ \o result.images,
                                              !.token = resp'.next_token]
                         ELSE listing

----------------------------------------------------------------------------
(* The system: requests in any order over an initially empty table and bucket *)

MaxCap == 2

DatePairs ==
    {<<NoDate, NoDate>>, <<Date(1), NoDate>>, <<NoDate, Date(1)>>,
     <<Date(1), Date(1)>>, <<Date(0), Date(1)>>, <<Date(2), Date(1)>>}

\* Queries that pass validation
ListQueries ==
    {Query(<<"u">>, d[1], d[2], l, NoToken) :
        d \in DatePairs, l \in {NoLimit, Limit(1), Limit(2)}} \cup
    {Query(<<>>, NoDate, NoDate, l, NoToken) : l \in {NoLimit, Limit(1), Limit(2)}}

\* Queries the handler refuses
BadListQueries ==
    {Query(<<"u">>, NoDate, NoDate, Limit(0), NoToken),
     Query(<<"u">>, NoDate, NoDate, Limit(MaxPageSize + 1), NoToken),
     Query(<<"u">>, NoDate, NoDate, BadLimit, NoToken),
     Query(<<"u">>, BadDate, NoDate, NoLimit, NoToken),
     Query(<<>>, NoDate, BadDate, NoLimit, NoToken)}

\* next_token values a caller can make up
ForgedTokens ==
    {GarbageToken,
     [kind |-> "b64json", json |-> JsonOther(TRUE)],
     [kind |-> "b64json", json |-> JsonOther(FALSE)],
     EncodeToken(ScanKey([image_id |-> <<"1">>])),
     EncodeToken(IndexKey([image_id |-> <<"1">>, user_id |-> <<"v">>,
                           upload_timestamp |-> 1]))}

SystemQueries ==
    {Query(u, NoDate, NoDate, Limit(1), t) :
        u \in {<<"u">>, <<>>}, t \in {NoToken, listing.token} \cup ForgedTokens}
      \cup BadListQueries

Next ==
    \/ Tick
    \/ \E cred \in issued : ClientTransfer(cred)
    \/ \E key \in DOMAIN objects : OutOfBandDelete(key)
    \/ \E body \in UploadBodies, uuid \in ImageIds, fault \in BOOLEAN, keep \in BOOLEAN,
          text \in Texts :
          IssueUpload(body, uuid, fault, keep, text)
    \/ \E body \in CompleteBodies, fault \in CompleteFaults, text \in Texts :
          CompleteUpload(body, fault, text)
    \/ \E image_id \in ImageIds \cup {<<>>}, body \in DeleteBodies, faults \in DeleteFaults,
          text \in Texts :
          DeleteImage(image_id, body, faults, text)
    \/ \E image_id \in ImageIds \cup {<<>>}, fault \in DownloadFaults, text \in Texts :
          GetDownloadUrl(image_id, fault, text)
    \/ \E query \in SystemQueries, cap \in 1..MaxCap, lek_at_end \in BOOLEAN,
          fault \in BOOLEAN, text \in Texts :
          ListImages(query, cap, lek_at_end, fault, text)

Spec == Init /\ [][Next]_vars

----------------------------------------------------------------------------
(* The query subsystem: a client paginating over a table that already holds
   records written by complete_upload *)

MaxStamp == 2

QueryIds == {IdOrder[i] : i \in 1..Len(IdOrder)}

\* What complete_upload stores for a transferred file "a"
StoredItem(image_id, user_id, ts) ==
    Item(image_id, user_id, <<"a">>, "image/jpeg", 1,
         CompleteKey(user_id, image_id, <<"a">>), ts)

\* (owner, upload_timestamp) of a stored record
Slots == {<<<<"u">>, t>> : t \in 0..MaxStamp} \cup {<<<<"v">>, 1>>}

InitQuery ==
    /\ \E ids \in SUBSET QueryIds : \E f \in [ids -> Slots] :
          /\ table = [id \in ids |-> StoredItem(id, f[id][1], f[id][2])]
          /\ objects = [k \in {table[id].s3_key : id \in ids} |->
                           [content_type |-> "image/jpeg", content_length |-> 1]]
    /\ issued = {}
    /\ now = MaxStamp
    /\ nops = 0
    /\ req = Request("init", NoBody, <<>>, {})
    /\ resp = NoResponse
    /\ listing = NoListing
    /\ inflight = NoInvocations

\* The client starts a listing, or asks for the next page of the one it has
\* and stops when it is told there is no more
ClientQueries ==
    IF ~listing.active THEN ListQueries
    ELSE IF listing.token # NoToken
    THEN {[listing.query EXCEPT !.next_token = listing.token]}
    ELSE {}

\* The backend is available throughout
NextQuery ==
    \E query \in ClientQueries, cap \in 1..MaxCap, lek_at_end \in BOOLEAN :
       ListImages(query, cap, lek_at_end, FALSE, FixedText)

SpecQuery == InitQuery /\ [][NextQuery]_vars

----------------------------------------------------------------------------
(* The life of a stored image: requests in any order once one upload has been
   issued, transferred and completed *)

\* The record and the object that issue-upload, a transfer and complete-upload
\* leave for user "u" and file "a" when uuid4 returned "1"; the credential of
\* that upload has expired since
InitStored ==
    /\ table = Put(EmptyMap, <<"1">>, StoredItem(<<"1">>, <<"u">>, 0))
    /\ objects = Put(EmptyMap, CompleteKey(<<"u">>, <<"1">>, <<"a">>),
                     [content_type |-> "image/jpeg", content_length |-> 1])
    /\ issued = {}
    /\ now = 0
    /\ nops = 1
    /\ req = Request("init", NoBody, <<>>, {})
    /\ resp = NoResponse
    /\ listing = NoListing
    /\ inflight = NoInvocations

\* A user_id is any non-empty text: this one ends in the text "/1_"
PathUserId == <<"v", "/", "1", "_">>

\* A filename sent to complete-upload is any non-empty text: this one starts
\* with the text "/2_"
PathFilename == <<"/", "2", "_", "a">>

StoredUploadBodies ==
    {Body("json", <<>>, u, <<"a">>, "image/jpeg", 1) :
        u \in {<<"u">>, <<"v">>, PathUserId}}

StoredCompleteBodies ==
    {Body("json", <<"1">>, u, f, "image/jpeg", 1) :
        u \in UserIds, f \in {<<"a">>, PathFilename}}

StoredQueries ==
    {Query(u, NoDate, NoDate, Limit(1), NoToken) : u \in {<<"u">>, <<>>}}

NextStored ==
    \/ Tick
    \/ \E cred \in issued : ClientTransfer(cred)
    \/ \E cred \in issued : CredentialExpires(cred)
    \/ \E key \in DOMAIN objects : OutOfBandDelete(key)
    \/ \E body \in StoredUploadBodies, uuid \in ImageIds, fault \in BOOLEAN,
          keep \in BOOLEAN, text \in Texts :
          IssueUpload(body, uuid, fault, keep, text)
    \/ \E body \in StoredCompleteBodies, fault \in CompleteFaults, text \in Texts :
          CompleteUpload(body, fault, text)
    \/ \E image_id \in ImageIds, body \in DeleteBodies, faults \in DeleteFaults,
          text \in Texts :
          DeleteImage(image_id, body, faults, text)
    \/ \E image_id \in ImageIds, fault \in DownloadFaults, text \in Texts :
          GetDownloadUrl(image_id, fault, text)
    \/ \E query \in StoredQueries, cap \in 1..MaxCap, lek_at_end \in BOOLEAN,
          fault \in BOOLEAN, text \in Texts :
          ListImages(query, cap, lek_at_end, fault, text)

SpecStored == InitStored /\ [][NextStored]_vars

----------------------------------------------------------------------------
(* Requests served one at a time with every backend call succeeding, and
   objects removed by the delete flow only *)

\* One upload has been issued, transferred and completed, and its credential
\* has expired: image "1" of user "u", or image "2" of the user whose id is
\* PathUserId; the file is "a" in both cases
InitSequential ==
    /\ \E stored \in {<<<<"1">>, <<"u">>>>, <<<<"2">>, PathUserId>>} :
          /\ table = Put(EmptyMap, stored[1], StoredItem(stored[1], stored[2], 0))
          /\ objects = Put(EmptyMap, CompleteKey(stored[2], stored[1], <<"a">>),
                           [content_type |-> "image/jpeg", content_length |-> 1])
    /\ issued = {}
    /\ now = 0
    /\ nops = 1
    /\ req = Request("init", NoBody, <<>>, {})
    /\ resp = NoResponse
    /\ listing = NoListing
    /\ inflight = NoInvocations

SequentialCompleteBodies ==
    StoredCompleteBodies \cup {Body("json", <<"2">>, PathUserId, <<"a">>, "image/jpeg", 1)}

NextSequential ==
    \/ Tick
    \/ \E cred \in issued : ClientTransfer(cred)
    \/ \E body \in StoredUploadBodies, uuid \in ImageIds, keep \in BOOLEAN :
          IssueUpload(body, uuid, FALSE, keep, FixedText)
    \/ \E body \in SequentialCompleteBodies : CompleteUpload(body, "none", FixedText)
    \/ \E image_id \in ImageIds, body \in DeleteBodies :
          DeleteImage(image_id, body, {}, FixedText)
    \/ \E image_id \in ImageIds : GetDownloadUrl(image_id, "none", FixedText)
    \/ \E query \in StoredQueries, cap \in 1..MaxCap, lek_at_end \in BOOLEAN :
          ListImages(query, cap, lek_at_end, FALSE, FixedText)

SpecSequential == InitSequential /\ [][NextSequential]_vars

----------------------------------------------------------------------------
(* A bucket written to by others: an upload was issued for user "u" and file
   "a" under id "1" and its credential expired unused; the object at its key
   was put there by another writer of the bucket, so neither its Content-Type
   nor its length is pinned by a POST policy *)

ForeignTypes == {"image/jpeg", "text/html"}

ForeignLengths == {0, 1}

InitForeign ==
    /\ table = EmptyMap
    /\ \E content_type \in ForeignTypes, content_length \in ForeignLengths :
          objects = Put(EmptyMap, CompleteKey(<<"u">>, <<"1">>, <<"a">>),
                        [content_type |-> content_type,
                         content_length |-> content_length])
    /\ issued = {}
    /\ now = 0
    /\ nops = 1
    /\ req = Request("init", NoBody, <<>>, {})
    /\ resp = NoResponse
    /\ listing = NoListing
    /\ inflight = NoInvocations

SpecForeign == InitForeign /\ [][NextStored]_vars

----------------------------------------------------------------------------
(* The record store on its own: DynamoDBService called directly, as its unit
   tests call it *)

Statuses == {"pending", "completed", "failed"}

TagLists == {NoTags, Tags(<<"t">>)}

\* An ImageMetadata a caller hands to put_item
Metadata(image_id, user_id, tags, status, stamp) ==
    [image_id |-> image_id, user_id |-> user_id, filename |-> <<"a">>,
     content_type |-> "image/jpeg", file_size |-> 1,
     upload_timestamp |-> stamp, tags |-> tags, description |-> Null,
     status |-> status, s3_key |-> CompleteKey(user_id, image_id, <<"a">>)]

Metadatas ==
    {Metadata(image_id, user_id, tags, status, 0) :
        image_id \in ImageIds, user_id \in UserIds, tags \in TagLists,
        status \in {"pending", "completed"}}

\* item = metadata.dict() with created_at and updated_at set to now
StampedItem(metadata) ==
    [image_id |-> metadata.image_id, user_id |-> metadata.user_id,
     filename |-> metadata.filename, content_type |-> metadata.content_type,
     file_size |-> metadata.file_size,
     upload_timestamp |-> metadata.upload_timestamp,
     tags |-> metadata.tags, description |-> metadata.description,
     status |-> metadata.status, s3_key |-> metadata.s3_key,
     created_at |-> now, updated_at |-> now]

\* The attributes ImageMetadata(**item) requires
RequiredAttributes ==
    {"image_id", "user_id", "filename", "content_type", "file_size",
     "upload_timestamp", "s3_key"}

\* What a call of the service gives back: the value it returns, or the fact
\* that it raised
StoreResult(raised, images) ==
    [NoResponse EXCEPT !.error = IF raised THEN "raised" ELSE "none",
                       !.images = images]

StoreRequest(op, image_id, fails, arg) ==
    [Request(op, NoBody, image_id, IF fails THEN {op} ELSE {})
        EXCEPT !.arg = arg]

\* service.put_item(metadata)
StorePut(metadata, fails) ==
    /\ nops < MaxOps
    /\ nops' = nops + 1
    /\ req' = StoreRequest("put_item", metadata.image_id, fails, metadata)
    /\ table' = put_item(StampedItem(metadata), fails).table
    /\ resp' = StoreResult(put_item(StampedItem(metadata), fails).failed, <<>>)
    /\ UNCHANGED <<objects, issued, now, listing, inflight>>

\* service.get_item(image_id): None, the ImageMetadata of the item, or the
\* ValidationError of an item that lacks a required attribute
StoreGet(image_id, fails) ==
    /\ nops < MaxOps
    /\ nops' = nops + 1
    /\ req' = StoreRequest("get_item", image_id, fails, Null)
    /\ resp' = IF fails
               THEN StoreResult(TRUE, <<>>)
               ELSE IF ~HasItem(image_id)
               THEN StoreResult(FALSE, <<>>)
               ELSE IF ~(RequiredAttributes \subseteq DOMAIN table[image_id])
               THEN StoreResult(TRUE, <<>>)
               ELSE StoreResult(FALSE, <<get_item(image_id)>>)
    /\ UNCHANGED <<table, objects, issued, now, listing, inflight>>

\* Variant: deleting a key that holds no item is an error
delete_item_strict(image_id, fails) ==
    [failed |-> fails \/ image_id \notin DOMAIN table,
     table |-> IF fails THEN table ELSE Remove(table, image_id)]

\* DynamoDBService.delete_item: delete_item by key, with no condition
delete_item(image_id, fails) ==
    [failed |-> fails,
     table |-> IF fails THEN table ELSE Remove(table, image_id)]

\* service.delete_item(image_id)
StoreDelete(image_id, fails) ==
    /\ nops < MaxOps
    /\ nops' = nops + 1
    /\ req' = StoreRequest("delete_item", image_id, fails, Null)
    /\ table' = delete_item(image_id, fails).table
    /\ resp' = StoreResult(delete_item(image_id, fails).failed, <<>>)
    /\ UNCHANGED <<objects, issued, now, listing, inflight>>

\* Variant: the item is replaced by one that holds the status only
update_status_replace(image_id, status, fails) ==
    [failed |-> fails,
     table |-> IF fails THEN table
               ELSE Put(table, image_id,
                        [image_id |-> image_id, status |-> status,
                         updated_at |-> now])]

\* DynamoDBService.update_status: update_item with
\* SET #status = :status, updated_at = :updated_at and no ConditionExpression.
\* UpdateItem edits the item the key holds, and creates an item of the key
\* and the SET attributes when the key holds none.
update_status(image_id, status, fails) ==
    [failed |-> fails,
     table |-> IF fails THEN table
               ELSE IF image_id \in DOMAIN table
               THEN [table EXCEPT ![image_id] =
                        [@ EXCEPT !.status = status, !.updated_at = now]]
               ELSE Put(table, image_id,
                        [image_id |-> image_id, status |-> status,
                         updated_at |-> now])]

\* service.update_status(image_id, status)
StoreUpdateStatus(image_id, status, fails) ==
    /\ nops < MaxOps
    /\ nops' = nops + 1
    /\ req' = StoreRequest("update_status", image_id, fails, status)
    /\ table' = update_status(image_id, status, fails).table
    /\ resp' = StoreResult(update_status(image_id, status, fails).failed, <<>>)
    /\ UNCHANGED <<objects, issued, now, listing, inflight>>

NextStore ==
    \/ Tick
    \/ \E metadata \in Metadatas, fails \in BOOLEAN : StorePut(metadata, fails)
    \/ \E image_id \in ImageIds, fails \in BOOLEAN : StoreGet(image_id, fails)
    \/ \E image_id \in ImageIds, fails \in BOOLEAN : StoreDelete(image_id, fails)
    \/ \E image_id \in ImageIds, status \in Statuses, fails \in BOOLEAN :
          StoreUpdateStatus(image_id, status, fails)

SpecStore == Init /\ [][NextStore]_vars

----------------------------------------------------------------------------
(* Complete-upload and delete side by side: each backend call of a handler
   is a step of its own, and the steps of different invocations interleave.
   No backend call fails. *)

\* The uploaded file: the object of user "u" and file "a" under id "1", with
\* or without the record of an earlier completion
InitRace ==
    /\ objects = Put(EmptyMap, CompleteKey(<<"u">>, <<"1">>, <<"a">>),
                     [content_type |-> "image/jpeg", content_length |-> 1])
    /\ table \in {EmptyMap, Put(EmptyMap, <<"1">>, StoredItem(<<"1">>, <<"u">>, 0))}
    /\ issued = {}
    /\ now = 0
    /\ nops = 0
    /\ req = Request("init", NoBody, <<>>, {})
    /\ resp = NoResponse
    /\ listing = NoListing
    /\ inflight = NoInvocations

\* The body every complete-upload and retry sends, and the owner's delete
RaceBody == Body("json", <<"1">>, <<"u">>, <<"a">>, "image/png", MaxFileSize)

RaceImageId == <<"1">>

RaceUserId == <<"u">>

At(i, pc) == inflight[i].pc = pc

Goto(i, pc) == inflight' = [inflight EXCEPT ![i].pc = pc]

Return(i, status) == inflight' = [inflight EXCEPT ![i].pc = "done", ![i].status = status]

\* complete_upload.py: s3_key is derived and check_object_exists is called
CompleteCheck(i) ==
    /\ i[1] = "complete_upload"
    /\ At(i, "idle")
    /\ LET s3_key == CompleteKey(RaceBody.user_id, RaceBody.image_id, RaceBody.filename)
       IN IF check_object_exists(s3_key)
          THEN inflight' = [inflight EXCEPT ![i].pc = "exists", ![i].s3_key = s3_key]
          ELSE Return(i, 404)
    /\ UNCHANGED <<table, objects, issued, now, nops, req, resp, listing>>

\* complete_upload.py: get_object_metadata is called
CompleteMetadata(i) ==
    /\ At(i, "exists")
    /\ inflight' = [inflight EXCEPT ![i].pc = "metadata",
                       ![i].s3_metadata = get_object_metadata(inflight[i].s3_key)]
    /\ UNCHANGED <<table, objects, issued, now, nops, req, resp, listing>>

\* complete_upload.py: the ImageMetadata is built and put_item is called
CompletePut(i) ==
    /\ At(i, "metadata")
    /\ LET content_type == RecordedType(RaceBody, inflight[i].s3_metadata)
           file_size == RecordedSize(RaceBody, inflight[i].s3_metadata)
       IN IF ~ImageMetadataValid(content_type, file_size)
          THEN /\ Return(i, 500)
               /\ UNCHANGED table
          ELSE /\ table' = put_item(Item(RaceBody.image_id, RaceBody.user_id,
                                         RaceBody.filename, content_type,
                                         file_size, inflight[i].s3_key, now),
                                    FALSE).table
               /\ Return(i, 200)
    /\ UNCHANGED <<objects, issued, now, nops, req, resp, listing>>

\* delete_image.py: get_item and the ownership comparison
DeleteLookup(i) ==
    /\ i[1] = "delete_image"
    /\ At(i, "idle")
    /\ IF ~HasItem(RaceImageId)
       THEN Return(i, 404)
       ELSE IF ~Authorized(get_item(RaceImageId), RaceUserId)
       THEN Return(i, 401)
       ELSE inflight' = [inflight EXCEPT ![i].pc = "authorized",
                            ![i].s3_key = get_item(RaceImageId).s3_key]
    /\ UNCHANGED <<table, objects, issued, now, nops, req, resp, listing>>

\* delete_image.py: delete_object on the key read from the record
DeleteObject(i) ==
    /\ At(i, "authorized")
    /\ objects' = Remove(objects, inflight[i].s3_key)
    /\ Goto(i, "object_deleted")
    /\ UNCHANGED <<table, issued, now, nops, req, resp, listing>>

\* delete_image.py: delete_item
DeleteRecord(i) ==
    /\ At(i, "object_deleted")
    /\ table' = delete_item(RaceImageId, FALSE).table
    /\ Return(i, 200)
    /\ UNCHANGED <<objects, issued, now, nops, req, resp, listing>>

NextRace ==
    \/ Tick
    \/ \E i \in Invocations : CompleteCheck(i)
    \/ \E i \in Invocations : CompleteMetadata(i)
    \/ \E i \in Invocations : CompletePut(i)
    \/ \E i \in Invocations : DeleteLookup(i)
    \/ \E i \in Invocations : DeleteObject(i)
    \/ \E i \in Invocations : DeleteRecord(i)

SpecRace == InitRace /\ [][NextRace]_vars

----------------------------------------------------------------------------
(* sanitize_filename on its own *)

\* How far past the length limit the names and extensions tried go
MaxExcess == 1

Repeat(c, n) == [i \in 1..n |-> c]

\* Lengths of a name or an extension: short ones and ones around the limit
Lengths == {0, 1, 2} \cup ((MaxFilenameLen - 2)..(MaxFilenameLen + MaxExcess))

\* Filenames a caller can send: an optional directory, a name of safe or
\* unsafe characters, and an optional dot and extension
FilenameInputs ==
    {dir \o Repeat(c, n) \o dot \o Repeat("x", m) :
        dir \in {<<>>, <<"d", "/">>, <<"d", "\\">>}, c \in {"a", " "},
        n \in Lengths, dot \in {<<>>, <<".">>}, m \in Lengths}

\* A call of a function: its argument is kept in the request, the value it
\* returns in the response
Returned(value) == [NoResponse EXCEPT !.images = <<value>>]

\* The function keeps no state: one call per behaviour tries every input
Sanitize(filename) ==
    /\ req.op = "init"
    /\ req' = [Request("sanitize_filename", NoBody, <<>>, {}) EXCEPT !.arg = filename]
    /\ resp' = Returned(sanitize_filename(filename))
    /\ UNCHANGED <<table, objects, issued, now, nops, listing, inflight>>

NextSanitize == \E filename \in FilenameInputs : Sanitize(filename)

SpecSanitize == Init /\ [][NextSanitize]_vars

----------------------------------------------------------------------------
(* Properties *)

\* The step just taken served a request of the given handler
Served(op) == req'.op = op /\ nops' = nops + 1

ValidComplete(body) == body.kind = "json" /\ CompleteUploadRequest(body)

\* C1: issue-upload never writes to the table.  Every issue-upload step,
\* accepted or refused, leaves the table as it was, the image_id it returns
\* has no record, and a record comes into being for an id only in a step
\* that is a successful complete-upload for that id.
C1_IssueUploadWritesNoRecord ==
    [][/\ Served("issue_upload") =>
            /\ table' = table
            /\ resp'.status = 200 => resp'.image_id \notin DOMAIN table'
       /\ \A id \in (DOMAIN table') \ (DOMAIN table) :
            /\ req'.op = "complete_upload"
            /\ resp'.status = 200
            /\ req'.body.image_id = id]_vars

\* A credential has been issued while the table holds a record
C1_Witness ==
    /\ req.op = "issue_upload"
    /\ resp.status = 200
    /\ DOMAIN table # {}

\* C2: complete-upload with a valid body, an object at the key built from
\* (user_id, image_id, filename) and no failing backend call answers 200 and
\* leaves a record for image_id with status completed, the request's user_id
\* as owner and that key as storage key.
C2_CompleteCreatesRecord ==
    LET body == req.body
        s3_key == CompleteKey(body.user_id, body.image_id, body.filename)
    IN (/\ req.op = "complete_upload"
        /\ req.faults = {}
        /\ ValidComplete(body)
        /\ s3_key \in DOMAIN objects)
       => /\ resp.status = 200
          /\ body.image_id \in DOMAIN table
          /\ table[body.image_id].status = "completed"
          /\ table[body.image_id].user_id = body.user_id
          /\ table[body.image_id].s3_key = s3_key

\* A completion has succeeded
C2_Witness ==
    /\ req.op = "complete_upload"
    /\ resp.status = 200
    /\ req.body.image_id \in DOMAIN table

\* C3: complete-upload with a valid body and no object at the derived key
\* leaves the table exactly as it was and, when the existence check itself
\* does not fail, answers 404 NotFound.
C3_CompleteWithoutObject ==
    [][LET body == req'.body
           s3_key == CompleteKey(body.user_id, body.image_id, body.filename)
       IN (/\ Served("complete_upload")
           /\ ValidComplete(body)
           /\ s3_key \notin DOMAIN objects)
          => /\ table' = table
             /\ req'.faults = {} =>
                  (resp'.status = 404 /\ resp'.error = "NotFound")]_vars

\* A completion was refused with 404 while the table holds a record
C3_Witness ==
    /\ req.op = "complete_upload"
    /\ resp.status = 404
    /\ DOMAIN table # {}

\* C4: the key complete-upload computes from the original request fields is
\* the key issue-upload returned for the same user_id, image_id and filename.
C4_SameStorageKey ==
    (req.op = "issue_upload" /\ resp.status = 200)
       => CompleteKey(req.body.user_id, resp.image_id, req.body.filename)
            = resp.s3_key

\* The response reports that the handler made the given backend call
Called(response, call) == \E i \in DOMAIN response.calls : response.calls[i] = call

\* The step just taken served a delete request that names an image and a user
DeleteBy(image_id, user_id) ==
    /\ Served("delete_image")
    /\ req'.image_id = image_id
    /\ image_id # <<>>
    /\ req'.body.kind = "json"
    /\ req'.body.user_id = user_id
    /\ user_id # <<>>

\* C5: a delete request by a user other than the record's owner leaves the
\* record and the object untouched and makes neither the object-store delete
\* nor the table delete; when the lookup does not fail it answers 401
\* Unauthorized.
C5_DeleteByNonOwner ==
    [][\A id \in DOMAIN table : \A u \in UserIds :
          (DeleteBy(id, u) /\ table[id].user_id # u)
          => /\ table' = table
             /\ objects' = objects
             /\ ~Called(resp', "delete_object")
             /\ ~Called(resp', "delete_item")
             /\ req'.faults = {} =>
                  (resp'.status = 401 /\ resp'.error = "Unauthorized")]_vars

\* A non-owner's delete was refused while the record and its object exist
C5_Witness ==
    /\ req.op = "delete_image"
    /\ resp.status = 401
    /\ req.image_id \in DOMAIN table
    /\ table[req.image_id].user_id # req.body.user_id
    /\ table[req.image_id].s3_key \in DOMAIN objects

\* C6: a delete request by the record's owner, with the table's lookup and
\* delete succeeding, answers 200 with status "deleted" and leaves no record
\* for image_id, whether the object-store delete succeeds or raises.
C6_DeleteByOwner ==
    [][\A id \in DOMAIN table : \A u \in UserIds :
          (/\ DeleteBy(id, u)
           /\ table[id].user_id = u
           /\ "get_item" \notin req'.faults
           /\ "delete_item" \notin req'.faults)
          => /\ resp'.status = 200
             /\ resp'.data_status = "deleted"
             /\ resp'.image_id = id
             /\ id \notin DOMAIN table']_vars

\* The owner's delete succeeded although the object-store delete raised
C6_Witness ==
    /\ req.op = "delete_image"
    /\ "delete_object" \in req.faults
    /\ resp.status = 200
    /\ resp.data_status = "deleted"
    /\ req.image_id \notin DOMAIN table
    /\ DOMAIN objects # {}

\* C7: a delete request for an image_id that has no record, by any user,
\* changes neither the table nor the bucket and makes neither the
\* object-store delete nor the table delete; when the lookup does not fail it
\* answers 404 NotFound.
C7_DeleteAbsent ==
    [][\A id \in ImageIds : \A u \in UserIds :
          (DeleteBy(id, u) /\ id \notin DOMAIN table)
          => /\ table' = table
             /\ objects' = objects
             /\ ~Called(resp', "delete_object")
             /\ ~Called(resp', "delete_item")
             /\ req'.faults = {} =>
                  (resp'.status = 404 /\ resp'.error = "NotFound")]_vars

\* A delete of an unknown id was refused while other records exist
C7_Witness ==
    /\ req.op = "delete_image"
    /\ resp.status = 404
    /\ resp.error = "NotFound"
    /\ req.image_id \notin DOMAIN table
    /\ DOMAIN table # {}
    /\ DOMAIN objects # {}

\* C8: a download request that names an image answers 200 only if a record
\* exists for image_id and an object exists at the record's s3_key; when no
\* backend call fails it answers 200 exactly in that case, and otherwise 404
\* NotFound without generating a URL.
C8_DownloadIffRecordAndObject ==
    [][(Served("get_download_url") /\ req'.image_id # <<>>)
       => LET id == req'.image_id
              both == /\ id \in DOMAIN table
                      /\ table[id].s3_key \in DOMAIN objects
          IN /\ resp'.status = 200 => both
             /\ req'.faults = {} =>
                  /\ resp'.status = 200 <=> both
                  /\ ~both => /\ resp'.status = 404
                              /\ resp'.error = "NotFound"
                              /\ ~Called(resp', "generate_presigned_url")]_vars

\* A download was refused because the record's object is gone
C8_Witness ==
    /\ req.op = "get_download_url"
    /\ resp.status = 404
    /\ req.image_id \in DOMAIN table
    /\ table[req.image_id].s3_key \notin DOMAIN objects

\* The upload_timestamps of a sequence of images never increase
NewestFirst(images) ==
    \A i, j \in DOMAIN images :
       i < j => images[i].upload_timestamp >= images[j].upload_timestamp

Stamps(images) == [i \in DOMAIN images |-> images[i].upload_timestamp]

\* The client's listing is a query by owner
ByOwner == listing.active /\ listing.query.user_id # <<>>

\* C9: a query by owner returns each page newest first, and the pages of one
\* pagination, concatenated in the order the cursor is followed, are newest
\* first as a whole.
C9_NewestFirst ==
    ByOwner => /\ NewestFirst(resp.images)
               /\ NewestFirst(listing.items)

\* An owner's records with timestamps 0 < 1 < 2 came back as [2, 1, 0] over
\* three pages
C9_Witness ==
    /\ ByOwner
    /\ nops = 3
    /\ Len(resp.images) = 1
    /\ Stamps(listing.items) = <<2, 1, 0>>

\* The records a query by owner with the given bounds is to select
Within(t, start_date, end_date) ==
    /\ start_date.kind = "iso" => start_date.t <= t
    /\ end_date.kind = "iso" => t <= end_date.t

Selected(query) ==
    {id \in DOMAIN table :
        /\ table[id].user_id = query.user_id
        /\ Within(table[id].upload_timestamp, query.start_date, query.end_date)}

Ids(images) == {images[i].image_id : i \in DOMAIN images}

\* C10: a query by owner returns only records of that owner whose
\* upload_timestamp lies within the given bounds, both ends inclusive, an
\* absent bound not constraining; a pagination followed to its end has
\* returned every such record exactly once.
C10_SelectsOwnerAndRange ==
    ByOwner =>
      /\ Ids(resp.images) \subseteq Selected(listing.query)
      /\ Ids(listing.items) \subseteq Selected(listing.query)
      /\ \A i \in DOMAIN listing.items :
            listing.items[i] = ImageMetadata(table[listing.items[i].image_id])
      /\ listing.token = NoToken =>
           /\ Ids(listing.items) = Selected(listing.query)
           /\ Len(listing.items) = Cardinality(Selected(listing.query))

\* A finished query with both bounds returned a record whose timestamp equals
\* both bounds and left out the owner's later record and another owner's
C10_Witness ==
    /\ ByOwner
    /\ listing.token = NoToken
    /\ listing.query.start_date = Date(1)
    /\ listing.query.end_date = Date(1)
    /\ listing.items # <<>>
    /\ \E id \in DOMAIN table :
          table[id].user_id = listing.query.user_id /\ table[id].upload_timestamp = 2
    /\ \E id \in DOMAIN table : table[id].user_id # listing.query.user_id

\* The records the client's listing is to return: the owner's selection, or
\* the whole table for a scan
Matching ==
    IF listing.query.user_id # <<>> THEN Selected(listing.query) ELSE DOMAIN table

\* C11: over an unchanging table, the pages of a listing (query by owner or
\* scan) followed by next_token never repeat a record, and once a page comes
\* back without next_token the pages together hold every matching record
\* exactly once, records of one owner with equal upload_timestamp included.
C11_PaginationComplete ==
    listing.active =>
      /\ \A i, j \in DOMAIN listing.items :
            i < j => listing.items[i].image_id # listing.items[j].image_id
      /\ Ids(listing.items) \subseteq Matching
      /\ listing.token = NoToken =>
           /\ Ids(listing.items) = Matching
           /\ Len(listing.items) = Cardinality(Matching)

\* A finished listing of one owner's records, one per page, two of which
\* share their upload_timestamp
C11_Witness ==
    /\ ByOwner
    /\ listing.token = NoToken
    /\ listing.query.limit = Limit(1)
    /\ nops >= 2
    /\ Len(listing.items) >= 2
    /\ listing.items[1].upload_timestamp = listing.items[2].upload_timestamp
    /\ Ids(listing.items) = Matching

\* The last request was a list request that was answered with a page
Listed == req.op = "list_images" /\ resp.status = 200

\* C12: in every list response has_more is true exactly when next_token is
\* present, and exactly when the backend returned a LastEvaluatedKey for the
\* page; the token then encodes that key.
C12_HasMoreIffToken ==
    Listed =>
      /\ resp.has_more <=> resp.next_token # NoToken
      /\ resp.has_more <=> resp.last_key.present
      /\ resp.last_key.present => resp.next_token = EncodeToken(resp.last_key)

\* A page came back with a continuation
C12_Witness ==
    /\ Listed
    /\ resp.images # <<>>
    /\ resp.last_key.present
    /\ resp.has_more
    /\ resp.next_token # NoToken

\* The continuation keys the backend can return over the table: the index
\* key and the table key of every record
NativeKeys ==
    {IndexKey(ImageMetadata(table[id])) : id \in DOMAIN table} \cup
    {ScanKey(ImageMetadata(table[id])) : id \in DOMAIN table}

\* Decoding the token that encodes k gives a key map equal to k
RoundTrips(k) ==
    LET next_token == EncodeToken(k)
    IN /\ Decodable(next_token)
       /\ DecodeToken(next_token).type = "object"
       /\ DecodeToken(next_token).truthy
       /\ DecodeToken(next_token).attrs = k.attrs

ForgedListing ==
    /\ req.op = "list_images"
    /\ req.faults = {}
    /\ ListReaches(Shape(req.query))
    /\ \/ req.query.next_token.kind = "garbage"
       \/ /\ req.query.next_token.kind = "b64json"
          /\ req.query.next_token.json.type = "other"

\* C14: a list request whose next_token was not produced by the encoder is
\* answered with 400 ValidationError, and the backend is not queried.
C14_ForgedTokenRejected ==
    ForgedListing =>
      /\ resp.status = 400
      /\ resp.error = "ValidationError"
      /\ resp.calls = <<>>

\* The last request was an issue-upload whose JSON body names a user and a
\* file
IssueAsked ==
    /\ req.op = "issue_upload"
    /\ req.body.kind = "json"
    /\ req.body.user_id # <<>>
    /\ req.body.filename # <<>>

SizeAndTypeAllowed(body) ==
    /\ 1 <= body.file_size
    /\ body.file_size <= MaxFileSize
    /\ body.content_type \in
         {"image/jpeg", "image/png", "image/gif", "image/webp", "image/bmp"}

\* C15: issue-upload accepts a request only if 1 <= file_size <= 10485760
\* and content_type is one of the five image types; any other size or type
\* is answered with 400 ValidationError without a call to the object store,
\* and a size of exactly 10485760 is accepted.
C15_SizeAndTypeBounds ==
    IssueAsked =>
      /\ resp.status = 200 => SizeAndTypeAllowed(req.body)
      /\ ~SizeAndTypeAllowed(req.body) =>
           /\ resp.status = 400
           /\ resp.error = "ValidationError"
           /\ resp.calls = <<>>
      /\ (SizeAndTypeAllowed(req.body) /\ req.faults = {}) => resp.status = 200

\* A request for exactly the largest size was accepted
C15_Witness ==
    /\ IssueAsked
    /\ req.body.file_size = MaxFileSize
    /\ resp.status = 200
    /\ resp.calls = <<"generate_presigned_post">>

\* C16: a complete-upload whose table put fails answers 500 InternalError
\* and leaves the table as it was; a complete-upload that repeats its body
\* while the object is still at the key and no backend call fails answers
\* 200 and leaves the record for image_id.
C16_CompletionRetriable ==
    [][/\ (Served("complete_upload") /\ "put_item" \in req'.faults)
          => /\ resp'.status = 500
             /\ resp'.error = "InternalError"
             /\ table' = table
       /\ (/\ Served("complete_upload")
           /\ req'.retry
           /\ req'.faults = {}
           /\ CompleteKey(req'.body.user_id, req'.body.image_id,
                          req'.body.filename) \in DOMAIN objects)
          => /\ resp'.status = 200
             /\ req'.body.image_id \in DOMAIN table'
             /\ table'[req'.body.image_id].user_id = req'.body.user_id
             /\ DOMAIN table' = DOMAIN table \cup {req'.body.image_id}]_vars

\* The retry of a completion that had failed at the table put succeeded for
\* an image that had no record
C16_Witness ==
    /\ req.op = "complete_upload"
    /\ req.retry
    /\ resp.status = 200
    /\ DOMAIN table = {req.body.image_id}

\* C17: the owner of a record never changes: no step leaves a record for
\* an image_id that had a record with another user_id before the step.
C17_OwnerImmutable ==
    [][\A id \in (DOMAIN table) \cap (DOMAIN table') :
          table'[id].user_id = table[id].user_id]_vars

\* C18: every record the table holds has status "completed".
C18_OnlyCompletedRecords ==
    \A id \in DOMAIN table : table[id].status = "completed"

\* A record is held after three requests have been served
C18_Witness ==
    /\ DOMAIN table # {}
    /\ nops = 3
    /\ \E id \in DOMAIN table : table[id].status = "completed"

\* C19: once the owner's delete of an image_id has been answered with 200,
\* no request brings a record for that image_id back unless a client has
\* transferred a file since.
C19_DeletionIrrevocable ==
    [][(/\ req.op = "delete_image"
        /\ resp.status = 200
        /\ req'.op # "transfer")
       => req.image_id \notin DOMAIN table']_vars

\* A body complete-upload is to refuse: text that is not JSON, no body, a
\* missing field, a content_type outside the five image types, or a
\* file_size that is not positive
InvalidCompleteBody(body) ==
    \/ body.kind # "json"
    \/ body.image_id = <<>>
    \/ body.user_id = <<>>
    \/ body.filename = <<>>
    \/ body.content_type \notin
         {"image/jpeg", "image/png", "image/gif", "image/webp", "image/bmp"}
    \/ body.file_size <= 0

\* C20: every invalid body sent to complete-upload is answered with 400
\* ValidationError, without a call to the object store and without a table
\* write.
C20_InvalidCompleteBodyRejected ==
    [][(Served("complete_upload") /\ InvalidCompleteBody(req'.body))
       => /\ resp'.status = 400
          /\ resp'.error = "ValidationError"
          /\ resp'.calls = <<>>
          /\ table' = table]_vars

\* The last step served a request of one of the five handlers
Handled ==
    req.op \in {"issue_upload", "complete_upload", "delete_image",
                "get_download_url", "list_images"}

\* The faults of the last request that the handler does not catch on its
\* own: delete_image logs a failure of delete_object and goes on
FatalFaults ==
    IF req.op = "delete_image" THEN req.faults \ {"delete_object"} ELSE req.faults

\* C21, as stated: whenever a backend call of a request fails, the answer is
\* 500 InternalError.
C21_EveryFaultIs500 ==
    (Handled /\ req.faults # {}) =>
       (resp.status = 500 /\ resp.error = "InternalError")

\* C21: every request is answered with a response of one of the five status
\* codes, and whenever a backend call fails, other than the object-store
\* delete of delete_image, the answer is 500 InternalError.
C21_NoEscape ==
    Handled =>
      /\ resp.status \in {200, 400, 401, 404, 500}
      /\ resp.status = 500 <=> resp.error = "InternalError"
      /\ FatalFaults # {} => resp.status = 500

\* The table delete of an owner's delete_image failed after the object was
\* deleted
C21_Witness ==
    /\ req.op = "delete_image"
    /\ req.faults = {"delete_item"}
    /\ resp.status = 500
    /\ resp.error = "InternalError"
    /\ req.image_id \in DOMAIN table

\* C22: the message of an InternalError response is independent of the
\* backend's error text: the response to a request during which a backend
\* call raised is the response the same request gets when the exception
\* carries any other text.  The handlers build the message as
\* f"Failed to ...: {str(e)}", so the text reaches the client.
C22_MessageIgnoresBackendText == (Handled /\ resp.status = 500 /\ req.text \in ErrorTexts) => \A text \in ErrorTexts : resp = Failed(req.op, text, resp.calls)

C23_FromStore ==
    LET s3_metadata == get_object_metadata(resp'.s3_key)
        record == table'[resp'.image_id]
    IN /\ resp'.image_id \in DOMAIN table'
       /\ s3_metadata.found
            => /\ record.content_type = s3_metadata.content_type
               /\ record.file_size = s3_metadata.content_length
       /\ ~s3_metadata.found
            => /\ record.content_type = req'.body.content_type
               /\ record.file_size = req'.body.file_size

\* C23: the record written by a successful complete-upload carries the
\* content_type and file_size the object store reports for the object at the
\* derived key, whatever the request declares; a declared value is recorded
\* only where the store gives none.  The store reports both fields for every
\* object it holds.
C23_StoreMetadataPreferred == [][(Served("complete_upload") /\ resp'.status = 200) => C23_FromStore]_vars

C23_Witness == /\ req.op = "complete_upload" /\ resp.status = 200 /\ resp.image_id \in DOMAIN table /\ resp.s3_key \in DOMAIN objects
               /\ table[resp.image_id].content_type = objects[resp.s3_key].content_type
               /\ table[resp.image_id].file_size = objects[resp.s3_key].content_length
               /\ table[resp.image_id].content_type # req.body.content_type
               /\ table[resp.image_id].file_size # req.body.file_size

StoreCall(op) == req'.op = op /\ nops' = nops + 1 /\ req'.faults = {}

Untouched(image_id) == \A other \in (DOMAIN table \cup DOMAIN table') \ {image_id} : other \in DOMAIN table /\ other \in DOMAIN table' /\ table'[other] = table[other]

\* C24: update_status for an image_id that has no record is a no-op: the
\* table holds no item for that id afterwards and no other item changes.
\* update_item carries no ConditionExpression, so the call creates an item of
\* image_id, status and updated_at.
C24_UpdateAbsentIsNoOp == [][(StoreCall("update_status") /\ req'.image_id \notin DOMAIN table) => (req'.image_id \notin DOMAIN table' /\ Untouched(req'.image_id))]_vars

OtherAttributes == {"user_id", "filename", "content_type", "file_size", "s3_key", "upload_timestamp", "tags", "description", "created_at"}

C25_Effect ==
    LET image_id == req'.image_id
        before == table[image_id]
        after == table'[image_id]
    IN /\ resp'.error = "none"
       /\ image_id \in DOMAIN table'
       /\ DOMAIN after = DOMAIN before
       /\ after.status = req'.arg
       /\ after.updated_at = now
       /\ \A attribute \in DOMAIN before \ {"status", "updated_at"} :
             after[attribute] = before[attribute]
       /\ Untouched(image_id)

\* C25: update_status for an image_id that has a record sets status to the
\* given value and updated_at to the time of the call, and leaves every other
\* attribute of that record and every other record as it was.
C25_UpdateChangesStatusOnly == [][(StoreCall("update_status") /\ req'.image_id \in DOMAIN table) => C25_Effect]_vars

C25_Witness == /\ req.op = "update_status" /\ req.faults = {} /\ req.image_id \in DOMAIN table
               /\ OtherAttributes \subseteq DOMAIN table[req.image_id]
               /\ table[req.image_id].status = "failed" /\ req.arg = "failed"
               /\ table[req.image_id].created_at = 0 /\ table[req.image_id].updated_at = 1
               /\ table[req.image_id].tags # NoTags
               /\ Cardinality(DOMAIN table) = 2

C26_PutEffect ==
    LET image_id == req'.image_id
    IN /\ resp'.error = "none"
       /\ image_id \in DOMAIN table'
       /\ RequiredAttributes \subseteq DOMAIN table'[image_id]
       /\ ImageMetadata(table'[image_id]) = req'.arg
       /\ Untouched(image_id)

C26_GetAfterPut ==
    (req.op = "put_item" /\ req.faults = {} /\ req'.image_id = req.image_id)
       => (resp'.error = "none" /\ resp'.images = <<req.arg>>)

\* C26: put_item stores the record under its image_id in place of whatever
\* that id held, leaving every other record as it was, and a get_item that
\* follows it returns the record that was put, field for field.  The table is
\* keyed by image_id alone, so it holds one record per id at most.
C26_PutThenGet == [][(StoreCall("put_item") => C26_PutEffect) /\ (StoreCall("get_item") => C26_GetAfterPut)]_vars

C26_Witness == /\ req.op = "get_item" /\ req.faults = {} /\ nops = 3 /\ now = 1
               /\ Cardinality(DOMAIN table) = 2 /\ resp.error = "none" /\ Len(resp.images) = 1
               /\ resp.images[1] = ImageMetadata(table[req.image_id])
               /\ resp.images[1].user_id = <<"v">> /\ resp.images[1].tags = Tags(<<"t">>)
               /\ table[req.image_id].created_at = 1

C27_DeleteEffect ==
    /\ resp'.error = "none"
    /\ req'.image_id \notin DOMAIN table'
    /\ Untouched(req'.image_id)
    /\ (req.op = "delete_item" /\ req.faults = {} /\ req.image_id = req'.image_id)
          => table' = table

C27_GetAbsent ==
    req'.image_id \notin DOMAIN table
       => (resp'.error = "none" /\ resp'.images = <<>> /\ table' = table)

\* C27: delete_item succeeds whether or not the id has a record, the id has
\* none afterwards and no other record changes; a delete_item that repeats
\* the one before it changes nothing; get_item of an id without a record
\* returns None and raises nothing.
C27_DeleteIdempotent == [][(StoreCall("delete_item") => C27_DeleteEffect) /\ (StoreCall("get_item") => C27_GetAbsent)]_vars

C27_Witness == /\ req.op = "delete_item" /\ req.faults = {} /\ resp.error = "none" /\ nops = 2
               /\ req.image_id \notin DOMAIN table /\ Cardinality(DOMAIN table) = 1
               /\ \A image_id \in DOMAIN table : RequiredAttributes \subseteq DOMAIN table[image_id]

MalformedListQuery(query) ==
    \/ query.limit.kind = "bad"
    \/ query.limit.kind = "int" /\ query.limit.n \notin 1..MaxPageSize
    \/ query.start_date.kind = "bad"
    \/ query.end_date.kind = "bad"

\* C28: a list request whose limit is not an integer or lies outside 1..100,
\* or whose start_date or end_date is not ISO-8601, is answered with 400
\* ValidationError and reads nothing from the table.  int() is applied to the
\* limit before the request is validated and outside the inner try, so a
\* limit that is not an integer is answered with 500 InternalError.
C28_MalformedListRejected == (req.op = "list_images" /\ MalformedListQuery(req.query)) => (resp.status = 400 /\ resp.error = "ValidationError" /\ resp.calls = <<>>)

DeleteSteps == <<"get_item", "delete_object", "delete_item">>

C29_Order ==
    LET calls == resp'.calls
        image_id == req'.image_id
    IN \* the calls made are an initial part of lookup, object, record
       /\ Len(calls) <= Len(DeleteSteps)
       /\ \A i \in 1..Len(calls) : calls[i] = DeleteSteps[i]
       \* nothing is deleted unless the record was found and is the caller's
       /\ Len(calls) >= 2
            => /\ image_id \in DOMAIN table
               /\ table[image_id].user_id = req'.body.user_id
       \* the object deletion has been attempted, and has removed the object
       \* unless it failed, by the time the record deletion is issued
       /\ Len(calls) = 3
            => \/ "delete_object" \in req'.faults
               \/ table[image_id].s3_key \notin DOMAIN objects'
       \* the store and the table change through these calls only
       /\ objects' # objects => Len(calls) >= 2
       /\ table' # table => Len(calls) = 3

\* C29: the delete flow looks the record up, compares the owner, attempts the
\* object deletion and then deletes the record, in that order: neither
\* deletion is issued unless the record exists and belongs to the caller, and
\* the record deletion is issued only after the object deletion was attempted.
C29_DeleteOrder == [][Served("delete_image") => C29_Order]_vars

C29_Witness == /\ req.op = "delete_image" /\ req.faults = {"delete_item"} /\ resp.calls = DeleteSteps
               /\ req.image_id \in DOMAIN table /\ table[req.image_id].user_id = req.body.user_id
               /\ table[req.image_id].s3_key \notin DOMAIN objects /\ nops = 3

AllFinished == \A i \in Invocations : inflight[i].pc = "done"

\* C30: however the steps of complete-upload requests (retries included) and
\* of the owner's delete of the same image interleave, with no backend call
\* failing, once every request has finished each record left in the table
\* has an object at its s3_key.  The existence check and put_item of
\* complete-upload are separate calls, and a delete that runs between them
\* removes the object the record is then written for.
C30_RecordsHaveObjects == AllFinished => \A image_id \in DOMAIN table : table[image_id].s3_key \in DOMAIN objects

\* C31: when requests are served one at a time, no backend call fails and
\* objects are removed by the delete flow only, every record in the table is
\* completed and has an object at its s3_key.  Two accepted requests with
\* different image_id can derive the same s3_key, and the delete of one of
\* the two records then removes the object of the other.
C31_JointInvariant == \A image_id \in DOMAIN table : table[image_id].status = "completed" /\ table[image_id].s3_key \in DOMAIN objects

\* C32: two records with different image_id never have the same s3_key.
\* f"images/{user_id}/{image_id}_{filename}" does not separate its parts:
\* user_id "v/1_", image_id "2", filename "a" and user_id "v", image_id "1",
\* filename "/2_a" give the same key.
C32_KeysDistinct == \A image_id \in DOMAIN table : \A other \in DOMAIN table \ {image_id} : table[image_id].s3_key # table[other].s3_key

\* The next_token is a cursor of the other kind of listing, or of the
\* listing of another user
ForeignCursor(query) ==
    /\ query.next_token.kind = "b64json"
    /\ query.next_token.json.type = "object"
    /\ LET attrs == query.next_token.json.attrs
       IN \/ query.user_id # <<>> /\ DOMAIN attrs = {"image_id"}
          \/ query.user_id = <<>> /\ "user_id" \in DOMAIN attrs
          \/ /\ query.user_id # <<>>
             /\ "user_id" \in DOMAIN attrs
             /\ attrs.user_id # query.user_id

\* C33: a list request whose next_token is a cursor made for another query
\* shape (a scan cursor with a user_id filter, an index cursor without
\* user_id, or an index cursor of another user) is answered with 400
\* ValidationError and is not passed to the backend.  The handler only
\* decodes the token; whatever key map comes out goes to query or scan as
\* ExclusiveStartKey.
C33_ForeignCursorRejected == (req.op = "list_images" /\ req.faults = {} /\ ListReaches(Shape(req.query)) /\ ForeignCursor(req.query)) => (resp.status = 400 /\ resp.error = "ValidationError" /\ resp.calls = <<>>)

\* The records of the client's listing it has not been given yet
Unseen == Matching \ Ids(listing.items)

C34_Progress ==
    /\ resp'.has_more
          => /\ resp'.images # <<>>
             /\ Continues(req'.query)
                   => /\ Ids(resp'.images) \subseteq Unseen
                      /\ Cardinality(Unseen') < Cardinality(Unseen)
    /\ ~resp'.has_more => resp'.next_token = NoToken
    /\ Len(listing'.items) <= Cardinality(Matching')

\* C34: over an unchanging table a client that follows next_token comes to
\* a response with has_more = false after finitely many requests: every
\* page that announces more holds at least one record, all of its records
\* are ones the client has not seen, so the number of records still to come
\* falls with every such page; a page that announces no more carries no
\* token.
C34_ListingTerminates == [][(Served("list_images") /\ resp'.status = 200) => C34_Progress]_vars

\* A listing of two records, one per page, that ended with an empty third
\* page
C34_Witness ==
    /\ Listed
    /\ listing.active
    /\ nops = 3
    /\ ~resp.has_more
    /\ resp.images = <<>>
    /\ Len(listing.items) = 2
    /\ Unseen = {}

\* C35: in every list response count is the number of entries of images and
\* is at most the limit of the request (50 when none is given); a request
\* with a user_id is answered by one query of the owner index and holds
\* records of that user only, and a request without user_id is answered by
\* one scan of the table.
C35_CountAndSource ==
    Listed =>
      /\ resp.count = Len(resp.images)
      /\ resp.count <= ParsedLimit(req.query.limit)
      /\ req.query.user_id # <<>>
            => /\ resp.calls = <<"query">>
               /\ \A i \in DOMAIN resp.images :
                     resp.images[i].user_id = req.query.user_id
      /\ req.query.user_id = <<>> => resp.calls = <<"scan">>

\* A full page of a scan over a table that holds more
C35_Witness ==
    /\ Listed
    /\ req.query.user_id = <<>>
    /\ req.query.limit = Limit(2)
    /\ resp.count = 2
    /\ resp.calls = <<"scan">>
    /\ resp.has_more
    /\ Cardinality(DOMAIN table) > 2
    /\ \E id \in DOMAIN table : table[id].user_id = <<"v">>

EndsWith(s, suffix) == Len(s) >= Len(suffix) /\ SubSeq(s, Len(s) - Len(suffix) + 1, Len(s)) = suffix

C36_Sanitized ==
    LET out == resp.images[1]
        base == ReplaceUnsafe(AfterLast(AfterLast(req.arg, "/"), "\\"))
        ext == AfterLast(base, ".")
    IN /\ \A i \in 1..Len(out) : out[i] \in SafeChars
       /\ Len(out) <= MaxFilenameLen
       /\ (Len(base) > MaxFilenameLen /\ Contains(base, ".") /\ ext # <<>>)
             => EndsWith(out, <<".">> \o ext)

\* C36: for every filename sanitize_filename returns text made of a-z, A-Z,
\* 0-9, '.', '_' and '-' only, of length 255 at most, and a truncated name
\* that has an extension still ends with it.  The name is cut to
\* 255 - len(ext) - 1 characters, which is negative for an extension of 255
\* characters or more: the result is then longer than 255.
C36_SanitizedSafeAndShort == req.op = "sanitize_filename" => C36_Sanitized

\* C37: a download request whose path carries no image_id is answered with
\* 400 ValidationError and reads neither the table nor the object store.
\* The handler calls validation_error_response, a name its module does not
\* import: the NameError is caught by the outer except.
C37_DownloadWithoutIdRejected == (req.op = "get_download_url" /\ req.image_id = <<>>) => (resp.status = 400 /\ resp.error = "ValidationError" /\ resp.calls = <<>>)

C38_Effect ==
    LET body == req'.body
        s3_key == CompleteKey(body.user_id, body.image_id, body.filename)
    IN (/\ Served("complete_upload")
        /\ ValidComplete(body)
        /\ s3_key \in DOMAIN objects
        /\ \/ objects[s3_key].content_type \notin AllowedTypes
           \/ objects[s3_key].content_length <= 0)
          => (table' = table /\ resp'.status # 200)

\* C38: every record in the table has a content_type of the whitelist and a
\* file_size above 0, and a complete-upload for an object whose content type
\* as reported by the store is outside the whitelist (or whose length is 0)
\* writes no record.
C38_RecordsWhitelisted == [][C38_Effect /\ \A image_id \in DOMAIN table' : table'[image_id].content_type \in AllowedTypes /\ table'[image_id].file_size > 0]_vars

C38_Witness ==
    /\ req.op = "complete_upload"
    /\ req.faults = {}
    /\ ValidComplete(req.body)
    /\ req.body.content_type = "image/jpeg"
    /\ resp.status = 500
    /\ resp.calls = <<"head_object", "head_object">>
    /\ table = EmptyMap
    /\ LET s3_key == CompleteKey(req.body.user_id, req.body.image_id, req.body.filename)
       IN /\ s3_key \in DOMAIN objects
          /\ objects[s3_key].content_type = "text/html"
          /\ objects[s3_key].content_length = 1

\* The step served a read, or a request that was refused
ReadOrRefused ==
    /\ nops' = nops + 1
    /\ Handled'
    /\ \/ req'.op \in {"list_images", "get_download_url"}
       \/ resp'.status \in {400, 401, 404}

\* C39: list and download-url requests, whatever their answer, and every
\* request of any flow that is answered with 400, 401 or 404 leave the table
\* and the object store as they were.
C39_ReadsAndRefusalsChangeNothing == [][ReadOrRefused => (table' = table /\ objects' = objects)]_vars

\* A complete-upload refused for want of its object while both stores hold
\* the record and the object of another upload
C39_Witness ==
    /\ req.op = "complete_upload"
    /\ req.faults = {}
    /\ resp.status = 404
    /\ resp.calls = <<"head_object">>
    /\ DOMAIN table # {}
    /\ \A image_id \in DOMAIN table : table[image_id].s3_key \in DOMAIN objects
    /\ nops = 3

============================================================================
